---- MODULE Spec2Model ----
(***************************************************************************)
(* Model of the jsonnet language server's document handling:               *)
(*   - pkg/server (hover.go): the request handlers for didOpen, didSave,   *)
(*     didChange and didClose, updateNodeCache (rebuild goroutine, timer   *)
(*     and watcher select loop) and closeFile;                             *)
(*   - pkg/config: the text document store and its dispatcher;             *)
(*   - pkg/analysis/lexical: PerformDiagnostics.Process.                   *)
(* One document path is modelled. Texts are numbered 1, 2, ... in the      *)
(* order the client produces them; a tree is named by the number of the    *)
(* text it was built from.                                                 *)
(***************************************************************************)
EXTENDS Integers, Sequences, FiniteSets, TLC

\* Bounds of the model.
MaxUpdates == 3
MaxChanges == 1
MaxCloses == 1
MaxWatched == 2
MaxRuns == 2
MaxDiags == 2
MaxLive == 1
MaxPanics == 2
MaxCoord == 2
MaxWidth == 2
MaxSegs == 2
MaxClosers == 2
MaxDepth == 2
MaxFields == 2
MaxLocals == 2
MaxInvalid == 1
MaxVersions == 2

VARIABLES
    ver,            \* number of texts the client's buffer has held so far
    disk,           \* version of the text of the file at the document's path
    textDocuments,  \* Config.textDocuments[uri]: the stored text (0: none)
    dispatched,     \* texts handed to Dispatcher.Dispatch whose goroutine has not run yet
    conn,           \* TextDocumentWatcher.conn is set
    procs,          \* one record per PerformDiagnostics.Process call, in start order
    cache,          \* NodeCache entry of the path: Absent or a tree
    failed,         \* the entry is in its "failed" state (a rebuild of the path failed)
    jobs,           \* one record per updateNodeCache invocation, in issue order
    closing,        \* closeFile goroutines started and not yet run
    closes,         \* didClose requests handled
    changes,        \* didChange requests handled
    replies,        \* conn.Reply calls made by Handle
    handling,       \* what Handle has yet to send for the request whose
                    \* operation has returned: "none", "reply" or "error"
    errorReplies,   \* conn.ReplyWithError calls made by Handle
    badCloses,      \* closeFile goroutines that returned on a uri.ToPath error
    removedClean,   \* Remove has returned and no Update was issued since
    broken,         \* conn.Notify returns an error (the client is not reachable)
    panics,         \* panics raised so far
    crashed,        \* an unrecovered panic has ended the server process
    probe           \* the call of a core function under study and its result

vars == <<ver, disk, textDocuments, dispatched, conn, procs, cache, failed, jobs,
          closing, closes, changes, replies,
          handling, errorReplies, badCloses, removedClean, broken, panics,
          crashed, probe>>

\* What the document handling itself never writes.
Aux == <<broken, panics, crashed, probe>>

\* No call of a core function is under study.
NoProbe == [op |-> "none"]

Absent == 0

\* The state of one updateNodeCache invocation.
\*   issue     version of the file when the request was handled
\*   rpc       position of the rebuild goroutine (hover.go 595-603)
\*   tree      version of the file the rebuild read (0 before it has read)
\*   out       what the rebuild goroutine left on its channels
\*   timer     the 1 second timer and its channel timer.C
\*   sentNotif the watcher's local of that name
\*   wdone     the watcher loop has returned
\*   running, complete: showMessage notifications sent by this invocation
\*   firedFirst: timer.C held its value before the rebuild reported
\*   prevDone  issue numbers of the rebuilds completed when this one was issued
\*   lost      showMessage calls of this invocation that returned an error
\*   closesSeen didClose requests handled before the request of this invocation
NewJob(v, done) ==
    [issue |-> v, rpc |-> "start", tree |-> 0, out |-> "none",
     timer |-> "armed", sentNotif |-> FALSE, wdone |-> FALSE,
     running |-> 0, complete |-> 0, firedFirst |-> FALSE, prevDone |-> done,
     lost |-> 0, closesSeen |-> closes]

JobIds == 1..Len(jobs)

\* Issue numbers of the rebuilds whose token.UpdateNodeCache has returned nil.
Completed == {jobs[j].issue : j \in {i \in JobIds : jobs[i].rpc \in {"stored", "sentDone"}}}

Init ==
    /\ ver = 0
    /\ disk = 1
    /\ textDocuments = 0
    /\ dispatched = {}
    /\ conn = FALSE
    /\ procs = <<>>
    /\ cache = Absent
    /\ failed = FALSE
    /\ jobs = <<>>
    /\ closing = 0
    /\ closes = 0
    /\ changes = 0
    /\ replies = 0
    /\ handling = "none"
    /\ errorReplies = 0
    /\ badCloses = 0
    /\ removedClean = FALSE
    /\ broken = FALSE
    /\ panics = 0
    /\ crashed = FALSE
    /\ probe = NoProbe

(***************************************************************************)
(* The node cache (token.NodeCache): Get, Set and Remove act on the entry  *)
(* of one path under the cache's lock, each as a single step. Get returns  *)
(* the tree of the entry or absent; the entry's "failed" state is kept     *)
(* beside the tree, until the next tree is stored or the entry is removed. *)
(***************************************************************************)
Get == cache

NodeCacheSet(tree) ==
    /\ cache' = tree
    /\ failed' = FALSE

NodeCacheRemove ==
    /\ cache' = Absent
    /\ failed' = FALSE

(***************************************************************************)
(* The file at the document's path. The server never writes it: the client *)
(* does, when the user saves the buffer, and so may any other program. A   *)
(* rebuild is given the path alone and reads whatever the file holds then. *)
(***************************************************************************)
\* The file gets a new text, its next version.
clientWritesFile ==
    /\ disk < MaxVersions
    /\ disk' = disk + 1
    /\ UNCHANGED <<Aux, ver, textDocuments, dispatched, conn, procs, cache, failed,
                   jobs, closing, closes, changes, replies, handling,
                   errorReplies, badCloses, removedClean>>

(***************************************************************************)
(* pkg/config: the text store. StoreTextDocumentItem keeps the document    *)
(* and dispatches it to the watchers of "textDocument.update".             *)
(***************************************************************************)
StoreTextDocumentItem(v) ==
    /\ textDocuments' = v
    /\ dispatched' = dispatched \cup {v}

UpdateTextDocumentItem(v) == StoreTextDocumentItem(v)

(***************************************************************************)
(* Handler.Handle: the operation of the method runs and returns to Handle, *)
(* which then answers on the connection: conn.Reply when the operation     *)
(* returned no error, conn.ReplyWithError when it returned one. The        *)
(* goroutines the operation started run on their own and may take steps    *)
(* before the answer is sent. The connection hands Handle one request at a *)
(* time.                                                                   *)
(***************************************************************************)
\* Handle is between two requests.
Idle == handling = "none"

\* The operation returns (nil, nil) to Handle.
ReturnNil ==
    /\ handling' = "reply"
    /\ UNCHANGED <<replies, errorReplies, badCloses>>

\* r.Decode rejects the payload of the request: the operation returns
\* (nil, err) to Handle and has changed nothing.
DecodeError ==
    /\ errorReplies < MaxInvalid
    /\ handling' = "error"
    /\ UNCHANGED <<Aux, ver, disk, textDocuments, dispatched, conn, procs, cache, failed,
                   jobs, closing, closes, changes, replies, errorReplies,
                   badCloses, removedClean>>

\* conn.Reply(ctx, req.ID, response)
Reply ==
    /\ handling = "reply"
    /\ handling' = "none"
    /\ replies' = replies + 1
    /\ UNCHANGED <<Aux, ver, disk, textDocuments, dispatched, conn, procs, cache, failed,
                   jobs, closing, closes, changes, errorReplies, badCloses,
                   removedClean>>

\* conn.ReplyWithError(ctx, req.ID, msg); return
ReplyWithError ==
    /\ handling = "error"
    /\ handling' = "none"
    /\ errorReplies' = errorReplies + 1
    /\ UNCHANGED <<Aux, ver, disk, textDocuments, dispatched, conn, procs, cache, failed,
                   jobs, closing, closes, changes, replies, badCloses,
                   removedClean>>

\* go updateNodeCache(ctx, r, c, uri): a new invocation, nothing of it run yet.
GoUpdateNodeCache(v) == jobs' = Append(jobs, NewJob(v, Completed))

\* As textDocumentDidOpen with updateNodeCache called without "go": the
\* handler would run the rebuild itself, storing its tree before it returns.
textDocumentDidOpen_sync ==
    /\ Idle
    /\ \/ DecodeError
       \/ /\ ver' = ver + 1
          /\ StoreTextDocumentItem(ver')
          /\ jobs' = Append(jobs, [NewJob(disk, Completed) EXCEPT
                                      !.rpc = "stored", !.tree = disk])
          /\ NodeCacheSet(disk)
          /\ ReturnNil
          /\ removedClean' = FALSE
          /\ UNCHANGED <<Aux, disk, conn, procs, closing, closes, changes>>

\* textDocument/didOpen: the text of the client's buffer is stored and
\* dispatched, and a rebuild of the path is started. The file is left as it
\* is: the rebuild will read it, not the buffer.
textDocumentDidOpen ==
    /\ Idle
    /\ \/ DecodeError
       \/ /\ ver' = ver + 1
          /\ StoreTextDocumentItem(ver')
          /\ GoUpdateNodeCache(disk)
          /\ ReturnNil
          /\ removedClean' = FALSE
          /\ UNCHANGED <<Aux, disk, conn, procs, cache, failed, closing, closes,
                         changes>>

\* textDocument/didSave: a rebuild of the path is started; neither the
\* stored text nor the file is touched.
textDocumentDidSave ==
    /\ Idle
    /\ \/ DecodeError
       \/ /\ GoUpdateNodeCache(disk)
          /\ ReturnNil
          /\ removedClean' = FALSE
          /\ UNCHANGED <<Aux, ver, disk, textDocuments, dispatched, conn, procs,
                         cache, failed, closing, closes, changes>>

\* textDocument/didChange: the whole new text of the client's buffer.
textDocumentDidChange ==
    /\ Idle
    /\ \/ DecodeError
       \/ /\ changes' = changes + 1
          /\ ver' = ver + 1
          /\ UpdateTextDocumentItem(ver')
          /\ ReturnNil
          /\ UNCHANGED <<Aux, disk, conn, procs, cache, failed, jobs, closing, closes,
                         removedClean>>

\* textDocument/didClose: go closeFile(ctx, c, uri).
textDocumentDidClose ==
    /\ Idle
    /\ \/ DecodeError
       \/ /\ closes < MaxCloses
          /\ closes' = closes + 1
          /\ closing' = closing + 1
          /\ ReturnNil
          /\ UNCHANGED <<Aux, ver, disk, textDocuments, dispatched, conn, procs,
                         cache, failed, jobs, changes, removedClean>>

\* A closeFile goroutine runs: it returns on a uri.ToPath error, and calls
\* nodeCache.Remove(path) otherwise.
closeFile ==
    /\ closing > 0
    /\ closing' = closing - 1
    /\ \/ /\ badCloses' = badCloses + 1
          /\ UNCHANGED <<cache, failed, removedClean>>
       \/ /\ NodeCacheRemove
          /\ removedClean' = TRUE
          /\ UNCHANGED badCloses
    /\ UNCHANGED <<Aux, ver, disk, textDocuments, dispatched, conn, procs, jobs, closes,
                   changes, replies, handling, errorReplies>>

(***************************************************************************)
(* updateNodeCache: the rebuild goroutine.                                 *)
(***************************************************************************)
JobFrame == UNCHANGED <<Aux, ver, disk, textDocuments, dispatched, conn, procs,
                        closing, closes, changes, replies,
                        handling, errorReplies, badCloses, removedClean>>

\* uri.ToPath fails: updateNodeCache returns before it has made its channels,
\* its timer or its rebuild goroutine.
updateNodeCacheBadURI(j) ==
    /\ jobs[j].rpc = "start"
    /\ jobs[j].timer = "armed"
    /\ jobs' = [jobs EXCEPT ![j].rpc = "noPath", ![j].timer = "none",
                            ![j].wdone = TRUE]
    /\ UNCHANGED <<cache, failed>>
    /\ JobFrame

\* token.UpdateNodeCache reads the file at the path.
RebuildRead(j) ==
    /\ jobs[j].rpc = "start"
    /\ jobs' = [jobs EXCEPT ![j].rpc = "read", ![j].tree = disk]
    /\ UNCHANGED <<cache, failed>>
    /\ JobFrame

\* token.UpdateNodeCache builds the tree, stores it and returns nil.
RebuildStore(j) ==
    /\ jobs[j].rpc = "read"
    /\ jobs' = [jobs EXCEPT ![j].rpc = "stored"]
    /\ NodeCacheSet(jobs[j].tree)
    /\ JobFrame

\* done <- true
RebuildDone(j) ==
    /\ jobs[j].rpc = "stored"
    /\ jobs' = [jobs EXCEPT ![j].rpc = "sentDone", ![j].out = "done"]
    /\ UNCHANGED <<cache, failed>>
    /\ JobFrame

\* token.UpdateNodeCache fails: it records the failure against the entry of
\* the path, whose tree it leaves as it is, and returns the error, which the
\* rebuild goroutine puts on its channel: errCh <- err
RebuildFail(j) ==
    /\ jobs[j].rpc = "read"
    /\ jobs' = [jobs EXCEPT ![j].rpc = "sentErr", ![j].out = "err"]
    /\ failed' = TRUE
    /\ UNCHANGED cache
    /\ JobFrame

(***************************************************************************)
(* updateNodeCache: the timer and the select loop.                         *)
(***************************************************************************)
\* The timer expires: a value is put on timer.C. A stopped timer (the
\* deferred timer.Stop, once the loop has returned) does not fire.
TimerFire(j) ==
    /\ jobs[j].timer = "armed"
    /\ ~jobs[j].wdone
    /\ jobs' = [jobs EXCEPT ![j].timer = "fired",
                            ![j].firedFirst = (jobs[j].out = "none")]
    /\ UNCHANGED <<cache, failed>>
    /\ JobFrame

\* As SelectErr, had the loop started the rebuild again after a failure.
SelectErr_retry(j) ==
    /\ ~jobs[j].wdone
    /\ jobs[j].out = "err"
    /\ jobs' = Append([jobs EXCEPT ![j].wdone = TRUE],
                      NewJob(jobs[j].issue, Completed))
    /\ UNCHANGED <<cache, failed>>
    /\ JobFrame

\* case err := <-errCh
SelectErr(j) ==
    /\ ~jobs[j].wdone
    /\ jobs[j].out = "err"
    /\ jobs' = [jobs EXCEPT ![j].wdone = TRUE]
    /\ UNCHANGED <<cache, failed>>
    /\ JobFrame

\* As SelectDone, had the loop gone round again instead of returning.
SelectDone_again(j) ==
    /\ ~jobs[j].wdone
    /\ jobs[j].out = "done"
    /\ jobs' = [jobs EXCEPT ![j].out = "taken",
                            ![j].complete = IF jobs[j].sentNotif THEN @ + 1 ELSE @,
                            ![j].lost = IF jobs[j].sentNotif /\ broken THEN @ + 1 ELSE @]
    /\ UNCHANGED <<cache, failed>>
    /\ JobFrame

\* case <-done
SelectDone(j) ==
    /\ ~jobs[j].wdone
    /\ jobs[j].out = "done"
    /\ jobs' = [jobs EXCEPT ![j].wdone = TRUE,
                            ![j].complete = IF jobs[j].sentNotif THEN @ + 1 ELSE @,
                            ![j].lost = IF jobs[j].sentNotif /\ broken THEN @ + 1 ELSE @]
    /\ UNCHANGED <<cache, failed>>
    /\ JobFrame

\* As SelectTimer, had the loop returned when showMessage fails.
SelectTimer_fatal(j) ==
    /\ ~jobs[j].wdone
    /\ jobs[j].timer = "fired"
    /\ jobs' = [jobs EXCEPT ![j].timer = "taken",
                            ![j].sentNotif = ~broken,
                            ![j].wdone = broken,
                            ![j].running = @ + 1,
                            ![j].lost = IF broken THEN @ + 1 ELSE @]
    /\ UNCHANGED <<cache, failed>>
    /\ JobFrame

\* case <-timer.C; the error of showMessage is dropped.
SelectTimer(j) ==
    /\ ~jobs[j].wdone
    /\ jobs[j].timer = "fired"
    /\ jobs' = [jobs EXCEPT ![j].timer = "taken", ![j].sentNotif = TRUE,
                            ![j].running = @ + 1,
                            ![j].lost = IF broken THEN @ + 1 ELSE @]
    /\ UNCHANGED <<cache, failed>>
    /\ JobFrame

\* The handlers, the rebuild goroutines and closeFile: everything that reads
\* or writes the text store and the node cache.
Handlers(maxJobs) ==
    \/ clientWritesFile
    \/ Len(jobs) < maxJobs /\ textDocumentDidOpen
    \/ Len(jobs) < maxJobs /\ textDocumentDidSave
    \/ changes < MaxChanges /\ textDocumentDidChange
    \/ textDocumentDidClose
    \/ Reply
    \/ ReplyWithError

Rebuilds ==
    \/ \E j \in JobIds : updateNodeCacheBadURI(j)
    \/ \E j \in JobIds : RebuildRead(j)
    \/ \E j \in JobIds : RebuildStore(j)
    \/ \E j \in JobIds : RebuildDone(j)
    \/ \E j \in JobIds : RebuildFail(j)

Next ==
    \/ Handlers(MaxWatched)
    \/ closeFile
    \/ Rebuilds

Spec == Init /\ [][Next]_vars

\* The same with up to MaxUpdates updates of the path.
NextRace ==
    \/ Handlers(MaxUpdates)
    \/ closeFile
    \/ Rebuilds

SpecRace == Init /\ [][NextRace]_vars

\* The updateNodeCache invocations in full: each one's rebuild goroutine,
\* timer and select loop.
NextNotify ==
    \/ Len(jobs) < MaxWatched /\ textDocumentDidOpen
    \/ Len(jobs) < MaxWatched /\ textDocumentDidSave
    \/ Reply
    \/ ReplyWithError
    \/ Rebuilds
    \/ \E j \in JobIds : TimerFire(j)
    \/ \E j \in JobIds : SelectErr(j)
    \/ \E j \in JobIds : SelectDone(j)
    \/ \E j \in JobIds : SelectTimer(j)

SpecNotify == Init /\ [][NextNotify]_vars

(***************************************************************************)
(* PerformDiagnostics.Process (document_processor.go). A text is known by  *)
(* its number and by the number n of diagnostics its parse emits.          *)
(***************************************************************************)
\* Capacity of diagCh.
DiagCap == 1

\* td.URI(): the one document every text here is a version of.
DocURI == "file:///doc.jsonnet"

\* The i-th ParseDiagnostic of text t: ranges are 1-indexed.
ParseDiagnostic(t, i) ==
    [Message |-> <<t, i>>,
     Loc |-> [Begin |-> [Line |-> i, Column |-> t],
              End |-> [Line |-> i, Column |-> t + 1]]]

\* position.FromJsonnetRange(loc).ToLSP(): the 0-indexed range.
ToLSP(loc) ==
    [Start |-> [Line |-> loc.Begin.Line - 1, Character |-> loc.Begin.Column - 1],
     End |-> [Line |-> loc.End.Line - 1, Character |-> loc.End.Column - 1]]

\* lsp.Diagnostic{Range, Message, Severity: lsp.Error}
Diagnostic(d) ==
    [Range |-> ToLSP(d.Loc), Message |-> d.Message, Severity |-> "Error"]

\* The state of one Process call.
\*   text, n      the document and the number of diagnostics of its parse
\*   conn         the conn argument is not nil
\*   pc           position of Process itself
\*   sent         diagnostics Parse has sent so far
\*   ch, closed   content of diagCh, and whether Parse has closed it
\*   diagnostics  the slice of that name
\*   done         the consumer goroutine has closed done
\*   published    the publishDiagnostics notifications this call has sent
\*   lost         conn.Notify calls of this call that returned an error
NewProc(t, n, c) ==
    [text |-> t, n |-> n, conn |-> c, pc |-> "parse", sent |-> 0, ch |-> <<>>,
     closed |-> FALSE, diagnostics |-> <<>>, done |-> FALSE, published |-> <<>>,
     lost |-> 0]

\* procs maps the text of each Process call made so far to the call's state.
ProcIds == DOMAIN procs

ProcFrame == UNCHANGED <<Aux, ver, disk, textDocuments, dispatched, conn, cache, failed, jobs,
                         closing, closes, changes, replies,
                         handling, errorReplies, badCloses, removedClean>>

\* Handler.SetConn: TextDocumentWatcher.SetConn(conn)
SetConn ==
    /\ ~conn
    /\ conn' = TRUE
    /\ UNCHANGED <<Aux, ver, disk, textDocuments, dispatched, procs, cache, failed, jobs,
                   closing, closes, changes, replies,
                   handling, errorReplies, badCloses, removedClean>>

\* A goroutine started by Dispatch runs TextDocumentWatcher.watch, which
\* calls Process with the watcher's conn; Process makes its channels and
\* starts the consumer goroutine.
watch(t, n) ==
    /\ t \in dispatched
    /\ dispatched' = dispatched \ {t}
    /\ procs' = procs @@ (t :> NewProc(t, n, conn))
    /\ UNCHANGED <<Aux, ver, disk, textDocuments, conn, cache, failed, jobs, closing, closes,
                   changes, replies,
                   handling, errorReplies, badCloses, removedClean>>

\* uri.ToPath fails: Process returns the error before anything is started.
watchBadURI(t) ==
    /\ t \in dispatched
    /\ dispatched' = dispatched \ {t}
    /\ procs' = procs @@ (t :> [NewProc(t, 0, conn) EXCEPT !.pc = "failed"])
    /\ UNCHANGED <<Aux, ver, disk, textDocuments, conn, cache, failed, jobs, closing, closes,
                   changes, replies,
                   handling, errorReplies, badCloses, removedClean>>

\* token.Parse sends its next diagnostic on diagCh (blocks while it is full).
ParseSend(p) ==
    /\ procs[p].pc = "parse"
    /\ procs[p].sent < procs[p].n
    /\ Len(procs[p].ch) < DiagCap
    /\ procs' = [procs EXCEPT
                    ![p].ch = Append(@, ParseDiagnostic(procs[p].text, procs[p].sent + 1)),
                    ![p].sent = @ + 1]
    /\ ProcFrame

\* token.Parse has sent every diagnostic: it closes diagCh and returns.
ParseClose(p) ==
    /\ procs[p].pc = "parse"
    /\ procs[p].sent = procs[p].n
    /\ procs' = [procs EXCEPT ![p].closed = TRUE, ![p].pc = "desugar"]
    /\ ProcFrame

\* token.Parse returns an error: it closes diagCh on its way out and Process
\* returns the wrapped error.
ParseFail(p) ==
    /\ procs[p].pc = "parse"
    /\ procs' = [procs EXCEPT ![p].closed = TRUE, ![p].pc = "failed"]
    /\ ProcFrame

\* token.DesugarFile succeeds: Process goes on to <-done.
DesugarOk(p) ==
    /\ procs[p].pc = "desugar"
    /\ procs' = [procs EXCEPT ![p].pc = "wait"]
    /\ ProcFrame

\* token.DesugarFile fails: Process returns the wrapped error.
DesugarFail(p) ==
    /\ procs[p].pc = "desugar"
    /\ procs' = [procs EXCEPT ![p].pc = "failed"]
    /\ ProcFrame

\* As ConsumerRecv, with the new diagnostic put in front of the slice.
ConsumerRecv_prepend(p) ==
    /\ ~procs[p].done
    /\ procs[p].ch # <<>>
    /\ procs' = [procs EXCEPT
                    ![p].ch = Tail(@),
                    ![p].diagnostics =
                        IF procs[p].conn
                        THEN <<Diagnostic(Head(procs[p].ch))>> \o @
                        ELSE @]
    /\ ProcFrame

\* The consumer goroutine: one round of "for d := range diagCh".
ConsumerRecv(p) ==
    /\ ~procs[p].done
    /\ procs[p].ch # <<>>
    /\ procs' = [procs EXCEPT
                    ![p].ch = Tail(@),
                    ![p].diagnostics =
                        IF procs[p].conn
                        THEN Append(@, Diagnostic(Head(procs[p].ch)))
                        ELSE @]
    /\ ProcFrame

\* The consumer goroutine: diagCh is closed and empty, close(done).
ConsumerClose(p) ==
    /\ ~procs[p].done
    /\ procs[p].ch = <<>>
    /\ procs[p].closed
    /\ procs' = [procs EXCEPT ![p].done = TRUE]
    /\ ProcFrame

\* The notification Process sends, when conn is not nil.
Publish(p) ==
    IF procs[p].conn
    THEN <<[URI |-> DocURI, Diagnostics |-> procs[p].diagnostics]>>
    ELSE <<>>

\* As ProcessFinish, without the wait on done.
ProcessFinish_nowait(p) ==
    /\ procs[p].pc = "wait"
    /\ procs' = [procs EXCEPT ![p].pc = "returned",
                              ![p].published = @ \o Publish(p),
                              ![p].lost = IF procs[p].conn /\ broken THEN @ + 1 ELSE @]
    /\ ProcFrame

\* <-done, then conn.Notify("textDocument/publishDiagnostics"), whose error is
\* only logged, and return nil.
ProcessFinish(p) ==
    /\ procs[p].pc = "wait"
    /\ procs[p].done
    /\ procs' = [procs EXCEPT ![p].pc = "returned",
                              ![p].published = @ \o Publish(p),
                              ![p].lost = IF procs[p].conn /\ broken THEN @ + 1 ELSE @]
    /\ ProcFrame

\* Every step of Process call p and of its consumer goroutine.
ProcStep(p) ==
    \/ ParseSend(p)
    \/ ParseClose(p)
    \/ ParseFail(p)
    \/ DesugarOk(p)
    \/ DesugarFail(p)
    \/ ConsumerRecv(p)
    \/ ConsumerClose(p)
    \/ ProcessFinish(p)

\* Text changes, their dispatch to the watcher and the Process calls.
DiagSteps(maxRuns) ==
    \/ changes < maxRuns /\ textDocumentDidChange
    \/ Reply
    \/ ReplyWithError
    \/ SetConn
    \/ \E t \in dispatched, n \in 0..MaxDiags : watch(t, n)
    \/ \E t \in dispatched : watchBadURI(t)
    \/ \E p \in ProcIds : ParseSend(p)
    \/ \E p \in ProcIds : ParseClose(p)
    \/ \E p \in ProcIds : ParseFail(p)
    \/ \E p \in ProcIds : DesugarOk(p)
    \/ \E p \in ProcIds : DesugarFail(p)
    \/ \E p \in ProcIds : ConsumerRecv(p)
    \/ \E p \in ProcIds : ConsumerClose(p)
    \/ \E p \in ProcIds : ProcessFinish(p)

NextDiag == DiagSteps(MaxRuns)

SpecDiag == Init /\ [][NextDiag]_vars

NextDiagLive == DiagSteps(MaxLive)

\* The Go scheduler eventually runs every goroutine that can take a step.
SpecDiagLive ==
    /\ Init
    /\ [][NextDiagLive]_vars
    /\ \A t \in 1..MaxLive : WF_vars(t \in ProcIds /\ ProcStep(t))

(***************************************************************************)
(* Delivery of notifications: conn.Notify may return an error.             *)
(***************************************************************************)
\* The client goes away: from now on conn.Notify returns an error.
ConnBreak ==
    /\ ~broken
    /\ broken' = TRUE
    /\ UNCHANGED <<ver, disk, textDocuments, dispatched, conn, procs, cache, failed, jobs,
                   closing, closes, changes, replies,
                   handling, errorReplies, badCloses, removedClean, panics,
                   crashed, probe>>

\* The client is back: conn.Notify succeeds again.
ConnRepair ==
    /\ broken
    /\ broken' = FALSE
    /\ UNCHANGED <<ver, disk, textDocuments, dispatched, conn, procs, cache, failed, jobs,
                   closing, closes, changes, replies,
                   handling, errorReplies, badCloses, removedClean, panics,
                   crashed, probe>>

\* Up to MaxLive opened texts, each with its updateNodeCache invocation and
\* its Process call for a text without diagnostics, over a connection that
\* comes and goes.
NextDeliver ==
    \/ ConnBreak
    \/ ConnRepair
    \/ SetConn
    \/ Len(jobs) < MaxLive /\ textDocumentDidOpen
    \/ Reply
    \/ ReplyWithError
    \/ \E j \in JobIds : RebuildRead(j)
    \/ \E j \in JobIds : RebuildStore(j)
    \/ \E j \in JobIds : RebuildDone(j)
    \/ \E j \in JobIds : TimerFire(j)
    \/ \E j \in JobIds : SelectDone(j)
    \/ \E j \in JobIds : SelectTimer(j)
    \/ \E t \in dispatched : watch(t, 0)
    \/ \E p \in ProcIds : ParseClose(p)
    \/ \E p \in ProcIds : DesugarOk(p)
    \/ \E p \in ProcIds : ConsumerClose(p)
    \/ \E p \in ProcIds : ProcessFinish(p)

SpecDeliver == Init /\ [][NextDeliver]_vars

\* A step of the j-th invocation that does not wait for the clock: one of
\* its rebuild goroutine or of its select loop.
JobStep(j) ==
    /\ j \in JobIds
    /\ \/ updateNodeCacheBadURI(j)
       \/ RebuildRead(j)
       \/ RebuildStore(j)
       \/ RebuildDone(j)
       \/ RebuildFail(j)
       \/ SelectErr(j)
       \/ SelectDone(j)
       \/ SelectTimer(j)

\* Up to MaxLive invocations, over a connection that comes and goes, under
\* a scheduler that lets every goroutine that can take a step take one in
\* the end, and with a token.UpdateNodeCache that returns.
NextNotifyLive ==
    \/ ConnBreak
    \/ ConnRepair
    \/ Len(jobs) < MaxLive /\ textDocumentDidOpen
    \/ Len(jobs) < MaxLive /\ textDocumentDidSave
    \/ Reply
    \/ ReplyWithError
    \/ Rebuilds
    \/ \E j \in JobIds : TimerFire(j)
    \/ \E j \in JobIds : SelectErr(j)
    \/ \E j \in JobIds : SelectDone(j)
    \/ \E j \in JobIds : SelectTimer(j)

SpecNotifyLive ==
    /\ Init
    /\ [][NextNotifyLive]_vars
    /\ \A j \in 1..MaxLive : WF_vars(JobStep(j))

(***************************************************************************)
(* Panics. Handle defers a recover; the goroutines the operations start    *)
(* (updateNodeCache and its rebuild goroutine, closeFile) defer none, and  *)
(* a panic that unwinds a goroutine without being recovered ends the       *)
(* process.                                                                *)
(***************************************************************************)
\* An operation panics on the goroutine of Handle: the deferred function
\* recovers and logs it, and Handle returns without a reply.
HandlePanic ==
    /\ Idle
    /\ panics < MaxPanics
    /\ panics' = panics + 1
    /\ UNCHANGED <<ver, disk, textDocuments, dispatched, conn, procs, cache, failed, jobs,
                   closing, closes, changes, replies,
                   handling, errorReplies, badCloses, removedClean, broken,
                   crashed, probe>>

\* The process exits: its cache, its goroutines and its connection are gone.
Crash ==
    /\ crashed' = TRUE
    /\ cache' = Absent
    /\ failed' = FALSE
    /\ panics' = panics + 1
    /\ UNCHANGED <<ver, disk, textDocuments, dispatched, conn, procs, jobs,
                   closing, closes, changes, replies,
                   handling, errorReplies, badCloses, removedClean, broken, probe>>

\* token.UpdateNodeCache panics on the rebuild goroutine of invocation j.
RebuildPanic(j) ==
    /\ panics < MaxPanics
    /\ jobs[j].rpc = "read"
    /\ Crash

\* nodeCache.Remove panics on the closeFile goroutine.
closeFilePanic ==
    /\ panics < MaxPanics
    /\ closing > 0
    /\ Crash

\* The handlers and their goroutines, any of which may panic; nothing runs
\* once the process has exited.
NextPanic ==
    /\ ~crashed
    /\ \/ Handlers(MaxWatched)
       \/ closeFile
       \/ Rebuilds
       \/ HandlePanic
       \/ \E j \in JobIds : RebuildPanic(j)
       \/ closeFilePanic

SpecPanic == Init /\ [][NextPanic]_vars

(***************************************************************************)
(* Calls of core functions, studied one call at a time. The call and its   *)
(* result are held in probe; the document handling stands still.           *)
(***************************************************************************)
ServerVars == <<ver, disk, textDocuments, dispatched, conn, procs, cache, failed,
               jobs,
                closing, closes, changes, replies,
                handling, errorReplies, badCloses, removedClean, broken, panics,
                crashed>>

\* The server right after NewHandler.
ServerInit ==
    /\ ver = 0
    /\ disk = 1
    /\ textDocuments = 0
    /\ dispatched = {}
    /\ conn = FALSE
    /\ procs = <<>>
    /\ cache = Absent
    /\ failed = FALSE
    /\ jobs = <<>>
    /\ closing = 0
    /\ closes = 0
    /\ changes = 0
    /\ replies = 0
    /\ handling = "none"
    /\ errorReplies = 0
    /\ badCloses = 0
    /\ removedClean = FALSE
    /\ broken = FALSE
    /\ panics = 0
    /\ crashed = FALSE

(***************************************************************************)
(* Hover: hover.handle and lexical.HoverAtLocation.                        *)
(***************************************************************************)
\* What newHoverVisitor, TokenAtLocation and Locatable.Resolve make of the
\* queried location of the document, each outcome HoverAtLocation tells
\* apart:
\*   "badSource"     the visitor cannot be made (newHoverVisitor fails)
\*   "badVisit"      TokenAtLocation fails
\*   "none"          no locatable token: TokenAtLocation returns nil
\*   "unresolvable"  Resolve returns locate.ErrUnresolvable
\*   "resolveFails"  Resolve fails with another error
\*   "token"         a token of the given width that begins at the location
\* Which of these a partial node leads to is decided by TokenAtLocation and
\* Resolve; HoverAtLocation has no case of its own for it.
HoverKinds ==
    {"badSource", "badVisit", "none", "unresolvable", "resolveFails", "token"}

\* posToLoc: the 1-indexed location of a 0-indexed position.
posToLoc(pos) == [Line |-> pos.Line + 1, Column |-> pos.Character + 1]

\* emptyHover = &lsp.Hover{}
emptyHover == [Contents |-> <<>>, Range |-> "zero"]

\* newHoverVisitor, TokenAtLocation and Locatable.Resolve on a document
\* that has `kind` at loc: the outcome HoverAtLocation sees.
ResolveAt(kind, loc, width) ==
    CASE kind = "badSource" -> [step |-> "visitor", err |-> "read"]
      [] kind = "badVisit" -> [step |-> "locate", err |-> "visit"]
      [] kind = "none" -> [step |-> "locate", err |-> "nil", locatable |-> "nil"]
      [] kind = "unresolvable" ->
             [step |-> "resolve", err |-> "ErrUnresolvable"]
      [] kind = "resolveFails" -> [step |-> "resolve", err |-> "other"]
      [] kind = "token" ->
             [step |-> "resolve", err |-> "nil",
              Description |-> <<"token", loc.Line, loc.Column>>,
              Location |-> [Begin |-> loc,
                            End |-> [Line |-> loc.Line,
                                     Column |-> loc.Column + width]]]

\* As HoverAtLocation, with the range of the core handed out as it is.
HoverAtLocation_unshifted(kind, l, c, width) ==
    LET r == ResolveAt(kind, [Line |-> l, Column |-> c], width)
    IN  IF r.step = "resolve" /\ r.err = "nil"
        THEN [hover |-> [Contents |-> <<[Language |-> "jsonnet", Value |-> r.Description]>>,
                         Range |-> [Start |-> [Line |-> r.Location.Begin.Line,
                                               Character |-> r.Location.Begin.Column],
                                    End |-> [Line |-> r.Location.End.Line,
                                             Character |-> r.Location.End.Column]]],
              err |-> "nil", loc |-> [Line |-> l, Column |-> c]]
        ELSE [hover |-> emptyHover, err |-> "nil", loc |-> [Line |-> l, Column |-> c]]

\* lexical.HoverAtLocation(filename, r, l, c): the hover, the error, and the
\* location the core was queried at.
HoverAtLocation(kind, l, c, width) ==
    LET loc == [Line |-> l, Column |-> c]
        r == ResolveAt(kind, loc, width)
    IN  IF r.step = "visitor" THEN [hover |-> "nil", err |-> r.err, loc |-> loc]
        ELSE IF r.step = "locate" /\ r.err # "nil"
        THEN [hover |-> "nil", err |-> r.err, loc |-> loc]
        ELSE IF r.step = "locate"
        THEN [hover |-> emptyHover, err |-> "nil", loc |-> loc]
        ELSE IF r.err = "ErrUnresolvable"
        THEN [hover |-> emptyHover, err |-> "nil", loc |-> loc]
        ELSE IF r.err # "nil"
        THEN [hover |-> "nil", err |-> r.err, loc |-> loc]
        ELSE [hover |->
                 [Contents |-> <<[Language |-> "jsonnet", Value |-> r.Description]>>,
                  Range |->
                     [Start |-> [Line |-> r.Location.Begin.Line - 1,
                                 Character |-> r.Location.Begin.Column - 1],
                      End |-> [Line |-> r.Location.End.Line - 1,
                               Character |-> r.Location.End.Column - 1]]],
              err |-> "nil", loc |-> loc]

\* The document a hover request names:
\*   "badURI"  uri.ToPath rejects its URI
\*   "noText"  config.Text has no text for it (not stored, not readable)
\*   "stored"  config.Text returns its text
HoverDocs == {"badURI", "noText", "stored"}

\* The core was not queried.
NoLoc == [Line |-> 0, Column |-> 0]

\* hover.handle: the error of uri.ToPath or of config.Text if there is one,
\* else HoverAtLocation at (Position.Line+1, Position.Character+1).
hoverHandle ==
    /\ probe.op = "hover"
    /\ probe.pc = "request"
    /\ probe' = [probe EXCEPT
                    !.pc = "replied",
                    !.result =
                        CASE probe.doc = "badURI" ->
                                 [hover |-> "nil", err |-> "ToPath", loc |-> NoLoc]
                          [] probe.doc = "noText" ->
                                 [hover |-> "nil", err |-> "Text", loc |-> NoLoc]
                          [] OTHER ->
                                 HoverAtLocation(probe.kind, probe.pos.Line + 1,
                                                 probe.pos.Character + 1,
                                                 probe.width)]
    /\ UNCHANGED ServerVars

\* The next hover request of the client.
hoverRequest ==
    /\ probe.op = "hover"
    /\ probe.pc = "replied"
    /\ \E l \in 0..MaxCoord, c \in 0..MaxCoord, k \in HoverKinds, w \in 1..MaxWidth,
          d \in HoverDocs :
           probe' = [op |-> "hover", pc |-> "request", doc |-> d, kind |-> k,
                     width |-> w, pos |-> [Line |-> l, Character |-> c],
                     result |-> "none"]
    /\ UNCHANGED ServerVars

InitHover ==
    /\ ServerInit
    /\ probe = [op |-> "hover", pc |-> "request", doc |-> "stored",
                kind |-> "token", width |-> 1,
                pos |-> [Line |-> 0, Character |-> 0], result |-> "none"]

NextHover == hoverHandle \/ hoverRequest

SpecHover == InitHover /\ [][NextHover]_vars

(***************************************************************************)
(* Completion: resolveIndex, removeEmpty and stringInSlice. A string is a  *)
(* sequence of one-character strings.                                      *)
(***************************************************************************)
\* Characters of class \w that occur in the texts studied.
WordChars == {"o", "a", "b", "x", "l", "c", "9"}

\* The characters of the class [;\]\)\}] of reIndex.
CloserChars == {";", "]", ")", "}"}

ignoredIndexItems == << <<"}">>, <<"]">>, <<")">>, <<";">> >>

\* strings.Split(t, ".")
RECURSIVE Split(_)
Split(t) ==
    IF \A i \in 1..Len(t) : t[i] # "."
    THEN <<t>>
    ELSE LET d == CHOOSE i \in 1..Len(t) :
                      t[i] = "." /\ \A k \in 1..(i - 1) : t[k] # "."
         IN  <<SubSeq(t, 1, d - 1)>> \o Split(SubSeq(t, d + 1, Len(t)))

\* \w+
IsWord(t) == t # <<>> /\ \A i \in 1..Len(t) : t[i] \in WordChars

\* The whole of t matches ((\w+\.)*\w+)\.[;\]\)\}]*
reIndexMatches(t) ==
    \E d \in 1..Len(t) :
        /\ t[d] = "."
        /\ \A i \in (d + 1)..Len(t) : t[i] \in CloserChars
        /\ d > 1
        /\ LET segs == Split(SubSeq(t, 1, d - 1))
           IN  \A k \in 1..Len(segs) : IsWord(segs[k])

\* reIndex.FindAllString(source, 1): the leftmost match (the pattern ends
\* with $, so a match is a suffix of the source), or nil.
FindAllString(source) ==
    LET starts == {i \in 1..Len(source) :
                       reIndexMatches(SubSeq(source, i, Len(source)))}
    IN  IF starts = {}
        THEN <<>>
        ELSE LET i == CHOOSE m \in starts : \A k \in starts : m <= k
             IN  <<SubSeq(source, i, Len(source))>>

stringInSlice(x, sl) == \E i \in 1..Len(sl) : sl[i] = x

removeEmpty(sl) ==
    SelectSeq(sl, LAMBDA x : x # <<>> /\ ~stringInSlice(x, ignoredIndexItems))

resolveIndex(source) ==
    LET match == FindAllString(source)
    IN  IF match = <<>>
        THEN [err |-> "does not contain an index", path |-> <<>>]
        ELSE [err |-> "nil", path |-> removeEmpty(Split(match[1]))]

\* strings.Join(path, ".")
RECURSIVE Join(_)
Join(path) ==
    IF Len(path) = 0 THEN <<>>
    ELSE IF Len(path) = 1 THEN path[1]
    ELSE path[1] \o <<".">> \o Join(Tail(path))

\* The texts studied: what precedes the path, a dotted path of identifiers,
\* a dot, and closers.
Idents == {<<"o">>, <<"a", "b">>}

Paths == UNION {[1..n -> Idents] : n \in 1..MaxSegs}

CloserSeqs == UNION {[1..n -> CloserChars] : n \in 0..MaxClosers}

Prefixes == {<<>>, <<"{", " ">>}

\* resolveIndex is called on the text up to the cursor.
indexResolve ==
    /\ probe.op = "resolveIndex"
    /\ probe.pc = "request"
    /\ probe' = [probe EXCEPT
                    !.pc = "replied",
                    !.result = resolveIndex(probe.prefix \o Join(probe.path)
                                            \o <<".">> \o probe.closers)]
    /\ UNCHANGED ServerVars

\* The next text.
indexRequest ==
    /\ probe.op = "resolveIndex"
    /\ probe.pc = "replied"
    /\ \E pre \in Prefixes, pa \in Paths, cl \in CloserSeqs :
           probe' = [op |-> "resolveIndex", pc |-> "request", prefix |-> pre,
                     path |-> pa, closers |-> cl, result |-> "none"]
    /\ UNCHANGED ServerVars

InitIndex ==
    /\ ServerInit
    /\ probe = [op |-> "resolveIndex", pc |-> "request", prefix |-> <<>>,
                path |-> <<<<"o">>>>, closers |-> <<>>, result |-> "none"]

NextIndex == indexResolve \/ indexRequest

SpecIndex == InitIndex /\ [][NextIndex]_vars

(***************************************************************************)
(* Syntax trees. A node is a record with its kind and the fields of the    *)
(* ast type of that name; ranges are 1-indexed and on line 1.              *)
(***************************************************************************)
createLoc(l, c) == [Line |-> l, Column |-> c]

createRange(r1l, r1c, r2l, r2c) ==
    [FileName |-> "file.jsonnet", Begin |-> createLoc(r1l, r1c),
     End |-> createLoc(r2l, r2c)]

\* &ast.LiteralString{Value: v}
createLiteralString(v) == [kind |-> "LiteralString", Value |-> v]

\* n under k Local wrappers.
RECURSIVE Wrapped(_, _)
Wrapped(n, k) ==
    IF k = 0 THEN n ELSE [kind |-> "Local", Body |-> Wrapped(n, k - 1)]

\* Names of fields and identifiers in the trees studied.
FieldNames == {"a", "b"}

\* The object of the source {n1: {n2: ... 'c'}} that begins at column col,
\* names = <<n1, n2, ...>>: every object has one field, whose key is one
\* column wide and lies one column after the brace, and whose body lies
\* four columns after the brace; the innermost body is the literal 'c'.
\* A body is wrapped in a Local (as the desugarer leaves it) when wrapped.
\* id tells the objects of one tree apart, as their addresses do.
RECURSIVE Chain(_, _, _, _)
Chain(names, col, wrapped, id) ==
    LET inner == IF Len(names) = 1
                 THEN [kind |-> "LiteralString", Value |-> "c",
                       Loc |-> createRange(1, col + 4, 1, col + 7)]
                 ELSE Chain(Tail(names), col + 4, wrapped, id + 1)
        body == IF wrapped THEN [kind |-> "Local", Body |-> inner] ELSE inner
    IN  [kind |-> "DesugaredObject", id |-> id,
         Fields |-> <<[Name |-> createLiteralString(names[1]), Body |-> body]>>,
         FieldLocs |-> {[key |-> names[1],
                         loc |-> createRange(1, col + 1, 1, col + 2)]}]

\* The objects of a chain, outermost first.
RECURSIVE ChainObjects(_)
ChainObjects(o) ==
    LET body == o.Fields[1].Body
        inner == IF body.kind = "Local" THEN body.Body ELSE body
    IN  IF inner.kind = "DesugaredObject"
        THEN <<o>> \o ChainObjects(inner)
        ELSE <<o>>

(***************************************************************************)
(* objectMapper (object.go): add and lookup.                               *)
(***************************************************************************)
\* fieldName(field)
fieldName(field) ==
    IF field.Name.kind = "LiteralString"
    THEN [err |-> "nil", name |-> field.Name.Value]
    ELSE [err |-> "field name is not a string", name |-> ""]

\* fieldByName(o, name): the first field of that name.
fieldByName(o, name) ==
    LET upTo == {i \in 1..Len(o.Fields) :
                     \/ fieldName(o.Fields[i]).err # "nil"
                     \/ fieldName(o.Fields[i]).name = name}
    IN  IF upTo = {}
        THEN [err |-> "field does not exist"]
        ELSE LET i == CHOOSE m \in upTo : \A k \in upTo : m <= k
             IN  IF fieldName(o.Fields[i]).err # "nil"
                 THEN [err |-> fieldName(o.Fields[i]).err]
                 ELSE [err |-> "nil", field |-> o.Fields[i]]

\* objectMapper.add(o, name) on the map m, a set of <<object id, field, range>>.
objectMapperAdd(m, o, name) ==
    IF \E e \in o.FieldLocs : e.key = name
    THEN m \cup {[object |-> o.id, field |-> name,
                  loc |-> (CHOOSE e \in o.FieldLocs : e.key = name).loc]}
    ELSE m

\* jpos.LocationFromJsonnet(lr)
LocationFromJsonnet(lr) ==
    [FileName |-> lr.FileName,
     Range |-> [Start |-> lr.Begin, End |-> lr.End]]

\* As lookup, answering with the range of the field's value.
RECURSIVE lookup_value(_, _, _)
lookup_value(m, o, path) ==
    LET name == path[1]
        rest == Tail(path)
        body == o.Fields[1].Body
        inner == IF body.kind = "Local" THEN body.Body ELSE body
    IN  IF ~\E e \in m : e.object = o.id /\ e.field = name
        THEN [err |-> "field does not exist in object"]
        ELSE IF rest = <<>>
        THEN IF inner.kind = "LiteralString"
             THEN [err |-> "nil", loc |-> LocationFromJsonnet(inner.Loc)]
             ELSE [err |-> "nil", loc |-> LocationFromJsonnet(
                      (CHOOSE e \in m : e.object = o.id /\ e.field = name).loc)]
        ELSE IF inner.kind # "DesugaredObject"
        THEN [err |-> "expected body to be an object"]
        ELSE lookup_value(m, inner, rest)

\* objectMapper.lookup(o, path), path not empty.
RECURSIVE lookup(_, _, _)
lookup(m, o, path) ==
    LET name == path[1]
        rest == Tail(path)
    IN  IF ~\E e \in m : e.object = o.id /\ e.field = name
        THEN [err |-> "field does not exist in object"]
        ELSE IF rest = <<>>
        THEN [err |-> "nil",
              loc |-> LocationFromJsonnet(
                          (CHOOSE e \in m : e.object = o.id /\ e.field = name).loc)]
        ELSE LET nested == fieldByName(o, name)
             IN  IF nested.err # "nil"
                 THEN [err |-> nested.err]
                 ELSE IF nested.field.Body.kind # "Local"
                 THEN [err |-> "field doesn't have local scope"]
                 ELSE IF nested.field.Body.Body.kind # "DesugaredObject"
                 THEN [err |-> "expected body to be an object"]
                 ELSE lookup(m, nested.field.Body.Body, rest)

\* The map after add was called for the field of each of the first n
\* objects of the chain.
RECURSIVE AddFirst(_, _)
AddFirst(objs, n) ==
    IF n = 0 \/ objs = <<>>
    THEN {}
    ELSE objectMapperAdd(AddFirst(Tail(objs), n - 1), objs[1],
                         objs[1].Fields[1].Name.Value)

NameSeqs == UNION {[1..n -> FieldNames] : n \in 1..(MaxDepth + 1)}

\* lookup is called on the tree of the request.
lookupCall ==
    /\ probe.op = "lookup"
    /\ probe.pc = "request"
    /\ LET o == Chain(probe.names, probe.col, probe.wrapped, 1)
           m == AddFirst(ChainObjects(o), probe.added)
       IN  probe' = [probe EXCEPT !.pc = "replied",
                                  !.result = lookup(m, o, probe.path)]
    /\ UNCHANGED ServerVars

\* Every tree and path within the bounds.
InitLookup ==
    /\ ServerInit
    /\ \E ns \in NameSeqs, pa \in NameSeqs, c \in 1..MaxCoord, w \in BOOLEAN,
          n \in 0..(MaxDepth + 1) :
           probe = [op |-> "lookup", pc |-> "request", names |-> ns, path |-> pa,
                    col |-> c, wrapped |-> w, added |-> n, result |-> "none"]

NextLookup == lookupCall

SpecLookup == InitLookup /\ [][NextLookup]_vars

(***************************************************************************)
(* objectMapper on objects that may begin with a computed field and whose  *)
(* bodies lie under any number of Local wrappers:                          *)
(*   {[k]:'v',n1: {[k]:'v',n2: 'c'}}                                       *)
(***************************************************************************)
\* Columns the computed field  [k]:'v',  takes.
LeadWidth == 8

\* The object at column col: with lead, the computed field comes first; the
\* body of the named field lies under wraps Local wrappers.
RECURSIVE MapperChain(_, _, _, _, _)
MapperChain(names, col, wraps, lead, id) ==
    LET key == IF lead THEN col + 1 + LeadWidth ELSE col + 1
        inner == IF Len(names) = 1
                 THEN [kind |-> "LiteralString", Value |-> "c",
                       Loc |-> createRange(1, key + 3, 1, key + 6)]
                 ELSE MapperChain(Tail(names), key + 3, wraps, lead, id + 1)
        named == [Name |-> createLiteralString(names[1]),
                  Body |-> Wrapped(inner, wraps)]
        computed == [Name |-> [kind |-> "Var", Id |-> "k"],
                     Body |-> Wrapped([kind |-> "LiteralString", Value |-> "v",
                                       Loc |-> createRange(1, col + 5, 1, col + 8)], 1)]
    IN  [kind |-> "DesugaredObject", id |-> id,
         Fields |-> IF lead THEN <<computed, named>> ELSE <<named>>,
         FieldLocs |-> {[key |-> names[1], loc |-> createRange(1, key, 1, key + 1)]}
                       \cup (IF lead
                             THEN {[key |-> "[k]",
                                    loc |-> createRange(1, col + 1, 1, col + 4)]}
                             ELSE {})]

\* The i-th object of the chain, outermost first, whatever wraps its body.
RECURSIVE MapperObject(_, _)
MapperObject(o, i) ==
    LET body == o.Fields[Len(o.Fields)].Body
        strip[n \in 0..3] == IF n = 0 THEN body
                             ELSE IF strip[n - 1].kind = "Local"
                                  THEN strip[n - 1].Body ELSE strip[n - 1]
    IN  IF i = 1 THEN o ELSE MapperObject(strip[3], i - 1)

\* The map after add(o_i, n_i) was called for the objects i of added.
RECURSIVE AddAll(_, _, _)
AddAll(o, names, added) ==
    IF added = {}
    THEN {}
    ELSE LET i == CHOOSE k \in added : TRUE
         IN  objectMapperAdd(AddAll(o, names, added \ {i}),
                             MapperObject(o, i), names[i])

\* lookup is called on the tree and the map of the request.
mapperCall ==
    /\ probe.op = "mapper"
    /\ probe.pc = "request"
    /\ LET o == MapperChain(probe.names, 1, probe.wraps, probe.lead, 1)
           m == AddAll(o, probe.names, probe.added)
       IN  probe' = [probe EXCEPT !.pc = "replied",
                                  !.result = lookup(m, o, probe.path)]
    /\ UNCHANGED ServerVars

\* Every tree, set of added fields and path within the bounds.
InitMapper ==
    /\ ServerInit
    /\ \E ns \in NameSeqs, pa \in NameSeqs, w \in 0..2, l \in BOOLEAN :
         \E ad \in SUBSET (1..Len(ns)) :
           probe = [op |-> "mapper", pc |-> "request", names |-> ns, path |-> pa,
                    wraps |-> w, lead |-> l, added |-> ad, result |-> "none"]

NextMapper == mapperCall

SpecMapper == InitMapper /\ [][NextMapper]_vars

(***************************************************************************)
(* pathToLocation and fieldNameAt (object.go) on objects with fields of    *)
(* several kinds.                                                           *)
(***************************************************************************)
\* Columns a field takes in the source.
SlotWidth == 12

\* The kinds of field studied, for a field whose source begins at column b:
\*   "lit"          a:'v'       key a at b, body at b+2..b+4
\*   "computed"     [k]:'v'     key [k] at b..b+2, body at b+4..b+6
\*   "fn"           id(y): y    key id at b..b+1, y at b+3, body at b+7
\*   "fnComputed"   [k](y): y   key [k] at b..b+2, y at b+4, body at b+8
\*   "objLit"       a:{x:'v'}   key a at b, body at b+2..b+10, holding "lit" at b+3
\*   "objComputed"  a:{[k]:'v'} the same, holding "computed" at b+3
FieldKinds == {"lit", "computed", "fn", "fnComputed", "objLit", "objComputed"}

\* The Function of a method field with one required parameter y at column p
\* and the body y at column c. Its range is that of its body: the
\* parameters lie before it, which is why pathToLocation looks for them in
\* the range from the start of the name to the end of the body.
Method(p, c) ==
    [kind |-> "Function",
     Required |-> <<"y">>,
     RequiredLocs |-> [id \in {"y"} |-> createRange(1, p, 1, p + 1)],
     Body |-> [kind |-> "Var", Id |-> "y", Loc |-> createRange(1, c, 1, c + 1)],
     Loc |-> createRange(1, c, 1, c + 1)]

\* One field of the given kind at column b: the DesugaredObjectField and its
\* entry of FieldLocs. The body of every field is wrapped in a Local.
RECURSIVE FieldOf(_, _, _)
FieldOf(kind, b, name) ==
    LET str == [keyKind |-> "string", key |-> name,
                loc |-> createRange(1, b, 1, b + 1)]
        wrap(n) == [kind |-> "Local", Body |-> n, Loc |-> n.Loc]
        lit(c) == [kind |-> "LiteralString", Value |-> "v",
                   Loc |-> createRange(1, c, 1, c + 3)]
    IN  CASE kind = "lit" ->
                 [field |-> [Name |-> createLiteralString(name), Body |-> wrap(lit(b + 2))],
                  entry |-> str]
          [] kind = "computed" ->
                 [field |-> [Name |-> [kind |-> "Var", Id |-> "k"],
                             Body |-> wrap(lit(b + 4))],
                  entry |-> [keyKind |-> "Var", key |-> "k",
                             loc |-> createRange(1, b, 1, b + 3)]]
          [] kind = "fn" ->
                 [field |-> [Name |-> createLiteralString(name),
                             Body |-> wrap(Method(b + 3, b + 7))],
                  entry |-> [str EXCEPT !.loc = createRange(1, b, 1, b + 2)]]
          [] kind = "fnComputed" ->
                 [field |-> [Name |-> [kind |-> "Var", Id |-> "k"],
                             Body |-> wrap(Method(b + 4, b + 8))],
                  entry |-> [keyKind |-> "Var", key |-> "k",
                             loc |-> createRange(1, b, 1, b + 3)]]
          [] kind \in {"objLit", "objComputed"} ->
                 LET in == FieldOf(IF kind = "objLit" THEN "lit" ELSE "computed",
                                   b + 3, "x")
                 IN  [field |-> [Name |-> createLiteralString(name),
                                 Body |-> wrap([kind |-> "DesugaredObject",
                                                Fields |-> <<in.field>>,
                                                FieldLocs |-> {in.entry},
                                                Loc |-> createRange(1, b + 2, 1, b + 11)])],
                      entry |-> str]

\* The names of the fields of an object, in the order of the fields.
FieldIds == <<"a", "b", "c", "d">>

\* The object whose fields are of the given kinds, from column 2 on.
ObjectOf(kinds) ==
    LET f(i) == FieldOf(kinds[i], 2 + (i - 1) * SlotWidth, FieldIds[i])
    IN  [kind |-> "DesugaredObject",
         Fields |-> [i \in 1..Len(kinds) |-> f(i).field],
         FieldLocs |-> {f(i).entry : i \in 1..Len(kinds)},
         Loc |-> createRange(1, 1, 1, 2 + Len(kinds) * SlotWidth)]

\* pos.IsInJsonnetRange(r) on one line; whether the end column belongs to
\* the range is left open (endIncl).
IsInJsonnetRange(pos, r, endIncl) ==
    /\ pos.Line = r.Begin.Line
    /\ pos.Column >= r.Begin.Column
    /\ IF endIncl THEN pos.Column <= r.End.Column ELSE pos.Column < r.End.Column

\* jpos.FromJsonnetRange(r)
FromJsonnetRange(r) == [Start |-> r.Begin, End |-> r.End]

\* As fieldNameAt, with a computed key answered by its own range.
fieldNameAt_resolved(o, pos, endIncl) ==
    LET hits == {e \in o.FieldLocs : IsInJsonnetRange(pos, e.loc, endIncl)}
    IN  IF hits = {}
        THEN [err |-> "position isn't in an object key", name |-> "", r |-> "zero"]
        ELSE LET e == CHOOSE h \in hits : TRUE
             IN  [err |-> "nil", name |-> e.key, r |-> FromJsonnetRange(e.loc)]

\* fieldNameAt(o, pos): the ranges of the keys of one object do not overlap,
\* so the order in which the map is walked does not matter.
fieldNameAt(o, pos, endIncl) ==
    LET hits == {e \in o.FieldLocs : IsInJsonnetRange(pos, e.loc, endIncl)}
    IN  IF hits = {}
        THEN [err |-> "position isn't in an object key", name |-> "", r |-> "zero"]
        ELSE LET e == CHOOSE h \in hits : TRUE
             IN  IF e.keyKind = "string"
                 THEN [err |-> "nil", name |-> e.key, r |-> FromJsonnetRange(e.loc)]
                 ELSE IF e.keyKind = "Var"
                 THEN [err |-> "variable keys are unsupported", name |-> "",
                       r |-> "zero"]
                 ELSE [err |-> "invalid field name type", name |-> "", r |-> "zero"]

\* fieldNameLoc(o, name)
fieldNameLoc(o, name) ==
    IF \E e \in o.FieldLocs : e.keyKind = "string" /\ e.key = name
    THEN [err |-> "nil",
          r |-> FromJsonnetRange(
                    (CHOOSE e \in o.FieldLocs : e.keyKind = "string" /\ e.key = name).loc)]
    ELSE [err |-> "field was not found", r |-> "zero"]

\* findFieldFunction(field)
findFieldFunction(field) ==
    field.Body.kind = "Local" /\ field.Body.Body.kind = "Function"

\* The failure of pathToLocation.
PathErr(msg) == [err |-> msg, path |-> <<>>, loc |-> "zero"]

\* pathToLocation(o, pos), and its loop over the fields from the i-th on.
RECURSIVE pathToLocation(_, _, _)
RECURSIVE fieldBodies(_, _, _, _)
\* The loop of pathToLocation over the fields, from the i-th on.
fieldBodies(o, pos, endIncl, i) ==
    IF i > Len(o.Fields)
    THEN PathErr("position could not be identified")
    ELSE
    LET field == o.Fields[i]
        next == fieldBodies(o, pos, endIncl, i + 1)
        \* from "bodyLoc := field.Body.Loc()" on
        body ==
            IF ~IsInJsonnetRange(pos, field.Body.Loc, endIncl)
            THEN next
            ELSE IF field.Name.kind # "LiteralString"
            THEN next
            ELSE IF field.Body.kind # "Local"
            THEN PathErr("expected scope to be defined in field body")
            ELSE IF field.Body.Body.kind = "DesugaredObject"
            THEN LET op == pathToLocation(field.Body.Body, pos, endIncl)
                 IN  IF op.err # "nil"
                     THEN op
                     ELSE [op EXCEPT !.path = <<field.Name.Value>> \o @]
            ELSE LET r == fieldNameLoc(o, field.Name.Value)
                 IN  IF r.err # "nil"
                     THEN PathErr(r.err)
                     ELSE [err |-> "nil", path |-> <<field.Name.Value>>, loc |-> r.r]
    IN  IF findFieldFunction(field)
        THEN LET fn == field.Body.Body
                 name == fieldName(field)
             IN  IF name.err # "nil"
                 THEN PathErr(name.err)
                 ELSE IF ~\E e \in o.FieldLocs : e.keyKind = "string" /\ e.key = name.name
                 THEN PathErr("unable to find location for field")
                 ELSE
                 LET start == (CHOOSE e \in o.FieldLocs :
                                   e.keyKind = "string" /\ e.key = name.name).loc
                     jfr == [FileName |-> fn.Body.Loc.FileName,
                             Begin |-> start.Begin, End |-> fn.Body.Loc.End]
                     params == {k \in 1..Len(fn.Required) :
                                    IsInJsonnetRange(pos, fn.RequiredLocs[fn.Required[k]],
                                                     endIncl)}
                 IN  IF ~IsInJsonnetRange(pos, jfr, endIncl)
                     THEN next
                     ELSE IF params # {}
                     THEN LET k == CHOOSE m \in params : \A n \in params : m <= n
                          IN  [err |-> "nil", path |-> <<name.name>>,
                               loc |-> FromJsonnetRange(
                                           fn.RequiredLocs[fn.Required[k]])]
                     ELSE body
        ELSE body

pathToLocation(o, pos, endIncl) ==
    LET named == fieldNameAt(o, pos, endIncl)
    IN  IF named.err = "nil"
        THEN [err |-> "nil", path |-> <<named.name>>, loc |-> named.r]
        ELSE fieldBodies(o, pos, endIncl, 1)

\* The object and the objects nested in its fields, outermost first.
ObjectsOf(o) ==
    <<o>> \o SelectSeq([i \in 1..Len(o.Fields) |-> o.Fields[i].Body.Body],
                       LAMBDA n : n.kind = "DesugaredObject")

KindSeqs == UNION {[1..n -> FieldKinds] : n \in 1..MaxFields}

\* fieldNameAt is called on the object and on each nested object, and
\* pathToLocation on the object.
pathToLocationCall ==
    /\ probe.op = "pathToLocation"
    /\ probe.pc = "request"
    /\ LET o == ObjectOf(probe.kinds)
           os == ObjectsOf(o)
       IN  probe' = [probe EXCEPT
                        !.pc = "replied",
                        !.named = [i \in 1..Len(os) |->
                                       fieldNameAt(os[i], probe.pos, probe.endIncl)],
                        !.result = pathToLocation(o, probe.pos, probe.endIncl)]
    /\ UNCHANGED ServerVars

\* Every object and position within the bounds.
InitPath ==
    /\ ServerInit
    /\ \E ks \in KindSeqs, c \in 1..(2 + MaxFields * SlotWidth), l \in 1..2,
          e \in BOOLEAN :
           probe = [op |-> "pathToLocation", pc |-> "request", kinds |-> ks,
                    pos |-> [Line |-> l, Column |-> c], endIncl |-> e,
                    named |-> <<>>, result |-> "none"]

NextPath == pathToLocationCall

SpecPath == InitPath /\ [][NextPath]_vars

(***************************************************************************)
(* Scope.GetInPath, on the tree of TestScope_GetPath:                      *)
(*   o = {data: {a: 'a', b: {c: 'a'}}, str: 'str'}                         *)
(* where the bodies of data and of b lie under w1 and w2 Local wrappers    *)
(* (one from the desugarer, a second one from a local of the body itself). *)
(***************************************************************************)
objField(name, body) == [Name |-> createLiteralString(name), Body |-> body]

nodeB == [kind |-> "DesugaredObject",
          Fields |-> <<objField("c", Wrapped(createLiteralString("a"), 1))>>]

nodeData(w2) ==
    [kind |-> "DesugaredObject",
     Fields |-> <<objField("a", Wrapped(createLiteralString("a"), 1)),
                  objField("b", Wrapped(nodeB, w2))>>]

nodeO(w1, w2) ==
    [kind |-> "DesugaredObject",
     Fields |-> <<objField("data", Wrapped(nodeData(w2), w1)),
                  objField("str", Wrapped(createLiteralString("str"), 1))>>]

\* s := newScope(nc); s.add(createIdentifier("o"), o)
ScopeOf(w1, w2) == [id \in {"o"} |-> [Detail |-> "o", Node |-> nodeO(w1, w2)]]

\* As Descend, looking through every Local wrapper of a body.
RECURSIVE Descend_unwrapAll(_, _)
Descend_unwrapAll(node, rest) ==
    IF node.kind = "Local" THEN Descend_unwrapAll(node.Body, rest)
    ELSE IF rest = <<>>
    THEN [err |-> "nil", Node |-> node]
    ELSE IF node.kind # "DesugaredObject"
    THEN [err |-> "not indexable", Node |-> "nil"]
    ELSE LET found == fieldByName(node, rest[1])
         IN  IF found.err # "nil"
             THEN [err |-> "field not found", Node |-> "nil"]
             ELSE Descend_unwrapAll(found.field.Body, Tail(rest))

\* The part of GetInPath after the head: from the node reached so far,
\* follow the remaining segments.
RECURSIVE Descend(_, _)
Descend(node, rest) ==
    IF rest = <<>>
    THEN [err |-> "nil", Node |-> node]
    ELSE IF node.kind # "DesugaredObject"
    THEN [err |-> "not indexable", Node |-> "nil"]
    ELSE LET found == fieldByName(node, rest[1])
         IN  IF found.err # "nil"
             THEN [err |-> "field not found", Node |-> "nil"]
             ELSE IF found.field.Body.kind # "Local"
             THEN [err |-> "not indexable", Node |-> "nil"]
             ELSE Descend(found.field.Body.Body, Tail(rest))

\* Scope.GetInPath(path), path not empty.
GetInPath(scope, path) ==
    IF path[1] \notin DOMAIN scope
    THEN [err |-> "unresolved identifier", Node |-> "nil"]
    ELSE Descend(scope[path[1]].Node, Tail(path))

PathNames == {"o", "x", "data", "str", "a", "b", "c"}

PathSeqs == UNION {[1..n -> PathNames] : n \in 1..(MaxDepth + 1)}

\* GetInPath is called with the path of the request.
getInPathCall ==
    /\ probe.op = "GetInPath"
    /\ probe.pc = "request"
    /\ probe' = [probe EXCEPT
                    !.pc = "replied",
                    !.result = GetInPath(ScopeOf(probe.w1, probe.w2), probe.path)]
    /\ UNCHANGED ServerVars

\* Every path within the bounds, on every tree.
InitGetInPath ==
    /\ ServerInit
    /\ \E pa \in PathSeqs, w1 \in 1..2, w2 \in 1..2 :
           probe = [op |-> "GetInPath", pc |-> "request", path |-> pa,
                    w1 |-> w1, w2 |-> w2, result |-> "none"]

NextGetInPath == getInPathCall

SpecGetInPath == InitGetInPath /\ [][NextGetInPath]_vars

(***************************************************************************)
(* LocationScope and Scope.Keys, on sources made of locals that follow one *)
(* another on line 1:  local a="a";local o="o";a                           *)
(***************************************************************************)
\* Columns one local takes in the source: its body begins that many columns
\* after the local itself.
LocalWidth == 12

\* Identifiers in the order Keys lists them.
IdentOrder == <<"a", "o", "std", "y">>

BindSets == {{"a"}, {"o"}, {"y"}, {"a", "o"}, {"o", "y"}}

\* How a source ends, after its last local:
\*   "var"           with a variable, one column wide
\*   "partial"       with nothing: the body is a Partial, whose range
\*                   begins and ends at the end of the text
\*   "partialIndex"  with "o.": the body is a PartialIndex, whose range
\*                   begins and ends at the cursor
Tails == {"var", "partial", "partialIndex"}

\* The tree of the source with the given binds, from the i-th local on.
RECURSIVE LocalsFrom(_, _, _)
LocalsFrom(binds, tail, i) ==
    LET col == 1 + (i - 1) * LocalWidth
        last == 1 + Len(binds) * LocalWidth
    IN  IF i > Len(binds)
        THEN CASE tail = "var" ->
                      [kind |-> "Var", Id |-> "a", Loc |-> createRange(1, col, 1, col + 1)]
               [] tail = "partial" ->
                      [kind |-> "Partial", Loc |-> createRange(1, col, 1, col)]
               [] tail = "partialIndex" ->
                      [kind |-> "PartialIndex", Target |-> [kind |-> "Var", Id |-> "o"],
                       Loc |-> createRange(1, col + 2, 1, col + 2)]
        ELSE [kind |-> "Local",
              Binds |-> binds[i],
              Bodies |-> [id \in binds[i] |-> createLiteralString(id)],
              Body |-> LocalsFrom(binds, tail, i + 1),
              Loc |-> IF tail = "var"
                      THEN createRange(1, col, 1, last + 1)
                      ELSE createRange(1, col, 0, 0)]

\* As Encloses, with the range of a partial node taken as it is written.
Encloses_closed(n, pos, endIncl) ==
    /\ pos.Line = n.Loc.Begin.Line
    /\ pos.Column >= n.Loc.Begin.Column
    /\ pos.Line = n.Loc.End.Line
    /\ IF endIncl THEN pos.Column <= n.Loc.End.Column
                  ELSE pos.Column < n.Loc.End.Column

\* The range of node n holds the position; a partial node, and a range
\* without an end, hold every position from their begin on, also past the
\* end of the text.
Encloses(n, pos, endIncl) ==
    /\ \/ pos.Line > n.Loc.Begin.Line
       \/ pos.Line = n.Loc.Begin.Line /\ pos.Column >= n.Loc.Begin.Column
    /\ \/ n.Loc.End = createLoc(0, 0)
       \/ n.kind \in {"Partial", "PartialIndex"}
       \/ pos.Line < n.Loc.End.Line
       \/ /\ pos.Line = n.Loc.End.Line
          /\ IF endIncl THEN pos.Column <= n.Loc.End.Column
                        ELSE pos.Column < n.Loc.End.Column

\* The walk of LocationScope from node n down to the position: the binds of
\* a local are added when its body holds the position.
RECURSIVE ScopeWalk(_, _, _, _)
ScopeWalk(n, pos, endIncl, scope) ==
    IF n.kind = "Local" /\ Encloses(n.Body, pos, endIncl)
    THEN ScopeWalk(n.Body, pos, endIncl,
                   [id \in DOMAIN scope \cup n.Binds |->
                       IF id \in n.Binds THEN [Detail |-> id, Node |-> n.Bodies[id]]
                       ELSE scope[id]])
    ELSE scope

\* LocationScope(filename, source, pos, nodeCache): std is there from the
\* start.
LocationScope(tree, pos, endIncl) ==
    ScopeWalk(tree, pos, endIncl,
              [id \in {"std"} |-> [Detail |-> "std", Node |-> "std"]])

\* Scope.Keys(): the identifiers, sorted.
Keys(scope) == SelectSeq(IdentOrder, LAMBDA id : id \in DOMAIN scope)

BindSeqs == UNION {[1..n -> BindSets] : n \in 1..MaxLocals}

\* LocationScope is called at the position of the request, then Keys.
locationScopeCall ==
    /\ probe.op = "LocationScope"
    /\ probe.pc = "request"
    /\ probe' = [probe EXCEPT
                    !.pc = "replied",
                    !.result = Keys(LocationScope(LocalsFrom(probe.binds, probe.tail, 1),
                                                  probe.pos, probe.endIncl))]
    /\ UNCHANGED ServerVars

\* Every source and position within the bounds.
InitScope ==
    /\ ServerInit
    /\ \E bs \in BindSeqs, t \in Tails, l \in 1..2,
          c \in 1..(3 + MaxLocals * LocalWidth), e \in BOOLEAN :
           probe = [op |-> "LocationScope", pc |-> "request", binds |-> bs,
                    tail |-> t, pos |-> [Line |-> l, Column |-> c], endIncl |-> e,
                    result |-> "none"]

NextScope == locationScopeCall

SpecScope == InitScope /\ [][NextScope]_vars

(***************************************************************************)
(* locateNode, on the same sources.                                        *)
(***************************************************************************)
\* The distinguishable result of a position outside the tree.
NotFound == [kind |-> "NotFound"]

\* As locateNode, without the descent into the body of a local.
locateNode_shallow(n, pos, endIncl) ==
    IF Encloses(n, pos, endIncl) THEN n ELSE NotFound

\* locateNode(node, loc): the deepest node whose range holds the position.
RECURSIVE locateNode(_, _, _)
locateNode(n, pos, endIncl) ==
    IF ~Encloses(n, pos, endIncl)
    THEN NotFound
    ELSE IF n.kind = "Local" /\ Encloses(n.Body, pos, endIncl)
    THEN locateNode(n.Body, pos, endIncl)
    ELSE n

\* locateNode is called at the position of the request.
locateCall ==
    /\ probe.op = "locateNode"
    /\ probe.pc = "request"
    /\ probe' = [probe EXCEPT
                    !.pc = "replied",
                    !.result = locateNode(LocalsFrom(probe.binds, probe.tail, 1),
                                          probe.pos, probe.endIncl)]
    /\ UNCHANGED ServerVars

\* Every source within the bounds and every position on lines 0 to 2, from
\* column 0 to past the end of the text.
InitLocate ==
    /\ ServerInit
    /\ \E bs \in BindSeqs, t \in Tails, l \in 0..2,
          c \in 0..(4 + MaxLocals * LocalWidth), e \in BOOLEAN :
           probe = [op |-> "locateNode", pc |-> "request", binds |-> bs,
                    tail |-> t, pos |-> [Line |-> l, Column |-> c], endIncl |-> e,
                    result |-> "none"]

NextLocate == locateCall

SpecLocate == InitLocate /\ [][NextLocate]_vars

(***************************************************************************)
(* Parse, on sources given as the sequence of their tokens and blanks, all *)
(* on line 1. A token is a record of its type t, its text v and its width  *)
(* w in columns.                                                           *)
(***************************************************************************)
Tok(t, v, w) == [t |-> t, v |-> v, w |-> w]

Blank == Tok("sp", " ", 1)

\* The column at which the i-th token begins; for i = Len(src) + 1, the
\* column of the cursor at the end of the text.
RECURSIVE ColumnOf(_, _)
ColumnOf(src, i) == IF i = 1 THEN 1 ELSE ColumnOf(src, i - 1) + src[i - 1].w

\* The first token from the i-th on that is not a blank.
RECURSIVE SkipBlanks(_, _)
SkipBlanks(src, i) ==
    IF i <= Len(src) /\ src[i].t = "sp" THEN SkipBlanks(src, i + 1) ELSE i

\* The partial node that stands for the expression missing at the j-th
\* token: it begins, and ends, where parsing could not proceed.
PartialAt(src, j) ==
    LET c == ColumnOf(src, j)
    IN  [kind |-> "Partial", Loc |-> createRange(1, c, 1, c)]

\* A Local without a body.
NilNode == [kind |-> "nil"]

RECURSIVE parseTerm(_, _)
RECURSIVE parsePostfix(_, _, _)
RECURSIVE parseFields(_, _, _, _)
RECURSIVE parseLocal(_, _)

\* An expression from the i-th token on: the node and the index of the
\* first token after it.
parseTerm(src, i) ==
    LET j == SkipBlanks(src, i)
        c == ColumnOf(src, j)
    IN  IF j > Len(src) \/ src[j].t \notin {"local", "id", "str", "num", "{"}
        THEN [node |-> PartialAt(src, j), next |-> j]
        ELSE CASE src[j].t = "str" ->
                      [node |-> [kind |-> "LiteralString", Value |-> src[j].v,
                                 Loc |-> createRange(1, c, 1, c + src[j].w)],
                       next |-> j + 1]
               [] src[j].t = "num" ->
                      [node |-> [kind |-> "LiteralNumber", OriginalString |-> src[j].v,
                                 Loc |-> createRange(1, c, 1, c + src[j].w)],
                       next |-> j + 1]
               [] src[j].t = "id" ->
                      parsePostfix(src,
                                   [kind |-> "Var", Id |-> src[j].v,
                                    Loc |-> createRange(1, c, 1, c + src[j].w)],
                                   j + 1)
               [] src[j].t = "{" -> parseFields(src, j + 1, <<>>, j)
               [] src[j].t = "local" -> parseLocal(src, j)

\* The indexes that follow a target: a dot without a name after it gives a
\* PartialIndex that keeps the target and lies at the cursor.
parsePostfix(src, target, i) ==
    IF i <= Len(src) /\ src[i].t = "."
    THEN IF i + 1 <= Len(src) /\ src[i + 1].t = "id"
         THEN parsePostfix(src,
                           [kind |-> "Index", Target |-> target, Id |-> src[i + 1].v,
                            Loc |-> [target.Loc EXCEPT
                                        !.End = createLoc(1, ColumnOf(src, i + 2))]],
                           i + 2)
         ELSE [node |-> [kind |-> "PartialIndex", Target |-> target,
                         Loc |-> createRange(1, ColumnOf(src, i + 1),
                                             1, ColumnOf(src, i + 1))],
               next |-> i + 1]
    ELSE [node |-> target, next |-> i]

\* The fields of the object opened at the token open, from the i-th token.
parseFields(src, i, fields, open) ==
    LET j == SkipBlanks(src, i)
        k == SkipBlanks(src, j + 1)
        object(last) == [kind |-> "Object", Fields |-> fields,
                         Loc |-> createRange(1, ColumnOf(src, open),
                                             1, ColumnOf(src, last))]
    IN  IF j > Len(src)
        THEN [node |-> object(j), next |-> j]
        ELSE IF src[j].t = "}"
        THEN [node |-> object(j + 1), next |-> j + 1]
        ELSE IF src[j].t = ","
        THEN parseFields(src, j + 1, fields, open)
        ELSE IF src[j].t = "id" /\ k <= Len(src) /\ src[k].t = ":"
        THEN LET value == parseTerm(src, k + 1)
             IN  parseFields(src, value.next,
                             Append(fields, [Id |-> src[j].v, Expr2 |-> value.node]),
                             open)
        ELSE [node |-> object(j), next |-> j]

\* A local from the keyword at the j-th token: `local` with no bind after it
\* is a Local without binds and without a body; a bind that is not closed
\* by a semicolon, or a semicolon with nothing after it, leaves a Partial
\* as the body.
parseLocal(src, j) ==
    LET k == SkipBlanks(src, j + 1)
        e == SkipBlanks(src, k + 1)
        bound == IF e <= Len(src) /\ src[e].t = "="
                 THEN parseTerm(src, e + 1)
                 ELSE [node |-> PartialAt(src, e), next |-> e]
        semi == SkipBlanks(src, bound.next)
        body == IF semi <= Len(src) /\ src[semi].t = ";"
                THEN parseTerm(src, semi + 1)
                ELSE [node |-> PartialAt(src, semi), next |-> semi]
    IN  IF k > Len(src) \/ src[k].t # "id"
        THEN [node |-> [kind |-> "Local", Binds |-> <<>>, Body |-> NilNode,
                        Loc |-> createRange(1, ColumnOf(src, j), 1, ColumnOf(src, k))],
              next |-> k]
        ELSE [node |-> [kind |-> "Local",
                        Binds |-> <<[Variable |-> src[k].v, Body |-> bound.node]>>,
                        Body |-> body.node,
                        Loc |-> createRange(1, ColumnOf(src, j),
                                            1, ColumnOf(src, body.next))],
              next |-> body.next]

\* Parse(filename, source, diagCh)
Parse(src) == [err |-> "nil", node |-> parseTerm(src, 1).node]

\* local a='a';  with the given identifier.
LocalToks(id) ==
    <<Tok("local", "local", 5), Blank, Tok("id", id, 1), Tok("=", "=", 1),
      Tok("str", id, 3), Tok(";", ";", 1)>>

\* How a source ends, after its complete locals:
\*   "keyword"     local
\*   "noBody"      (nothing)
\*   "bindIndex"   local y=o.
\*   "emptyField"  local o={a: }; o
\*   "bodyIndex"   local o={a: 9}; o.
\*   "complete"    local o={a: 9}; o.a
ParseTails == {"keyword", "noBody", "bindIndex", "emptyField", "bodyIndex", "complete"}

\* local o={f:  up to the value of the field; with a blank after the colon
\* when spaced.
ObjectHead(f, spaced) ==
    <<Tok("local", "local", 5), Blank, Tok("id", "o", 1), Tok("=", "=", 1),
      Tok("{", "{", 1), Tok("id", f, 1), Tok(":", ":", 1)>>
    \o (IF spaced THEN <<Blank>> ELSE <<>>)

ObjectEnd == <<Tok("}", "}", 1), Tok(";", ";", 1), Blank, Tok("id", "o", 1)>>

TailToks(tail, f, spaced) ==
    CASE tail = "keyword" -> <<Tok("local", "local", 5)>>
      [] tail = "noBody" -> <<>>
      [] tail = "bindIndex" ->
             <<Tok("local", "local", 5), Blank, Tok("id", "y", 1), Tok("=", "=", 1),
               Tok("id", "o", 1), Tok(".", ".", 1)>>
      [] tail = "emptyField" -> ObjectHead(f, spaced) \o ObjectEnd
      [] tail = "bodyIndex" ->
             ObjectHead(f, spaced) \o <<Tok("num", "9", 1)>> \o ObjectEnd
             \o <<Tok(".", ".", 1)>>
      [] tail = "complete" ->
             ObjectHead(f, spaced) \o <<Tok("num", "9", 1)>> \o ObjectEnd
             \o <<Tok(".", ".", 1), Tok("id", f, 1)>>

\* The source of ids[1], ..., ids[n] bound by complete locals, and the tail.
RECURSIVE SourceOf(_, _, _, _)
SourceOf(ids, tail, f, spaced) ==
    IF ids = <<>>
    THEN TailToks(tail, f, spaced)
    ELSE LocalToks(ids[1]) \o SourceOf(Tail(ids), tail, f, spaced)

IdSeqs == UNION {[1..n -> {"a", "y"}] : n \in 0..MaxLocals}

\* Parse is called on the source of the request.
parseCall ==
    /\ probe.op = "Parse"
    /\ probe.pc = "request"
    /\ probe' = [probe EXCEPT
                    !.pc = "replied",
                    !.result = Parse(SourceOf(probe.ids, probe.tail, probe.field,
                                              probe.spaced))]
    /\ UNCHANGED ServerVars

\* Every source within the bounds, the empty text left out.
InitParse ==
    /\ ServerInit
    /\ \E ids \in IdSeqs, t \in ParseTails, f \in FieldNames, sp \in BOOLEAN :
           /\ t = "noBody" => ids # <<>>
           /\ probe = [op |-> "Parse", pc |-> "request", ids |-> ids, tail |-> t,
                       field |-> f, spaced |-> sp, result |-> "none"]

NextParse == parseCall

SpecParse == InitParse /\ [][NextParse]_vars

(***************************************************************************)
(* matchHandler.handleIndex, on the sources  local o={a:9}; o.             *)
(***************************************************************************)
\* astext.TokenValue(token)
TokenValue(token) ==
    CASE token.kind = "LiteralNumber" -> token.OriginalString
      [] token.kind = "LiteralString" -> token.Value
      [] OTHER -> "unknown value"

\* astext.TokenName(token), for the kinds of node met here.
TokenName(token) ==
    CASE token.kind = "DesugaredObject" -> "object"
      [] token.kind = "LiteralNumber" -> "number"
      [] token.kind = "LiteralString" -> "string"
      [] token.kind = "Local" -> "local"
      [] OTHER -> "(unknown)"

\* The text  local o={f1:9,f2:9}; p1.p2.  followed by the closers.
RECURSIVE FieldsText(_)
FieldsText(fields) ==
    IF fields = <<>> THEN <<>>
    ELSE <<fields[1], ":", "9">>
         \o (IF Len(fields) > 1 THEN <<",">> ELSE <<>>)
         \o FieldsText(Tail(fields))

IndexText(fields, path, closers) ==
    <<"l", "o", "c", "a", "l", " ", "o", "=", "{">> \o FieldsText(fields)
    \o <<"}", ";", " ">> \o Join([i \in 1..Len(path) |-> <<path[i]>>])
    \o <<".">> \o closers

\* Its tree after Parse and DesugarFile: a local that binds o to the object,
\* with a PartialIndex at the end of the text as its body.
IndexTree(fields, path, closers) ==
    LET end == Len(IndexText(fields, path, closers)) + 1
    IN  [kind |-> "Local",
         Binds |-> {"o"},
         Bodies |-> [id \in {"o"} |->
                        [kind |-> "DesugaredObject",
                         Fields |-> [i \in 1..Len(fields) |->
                                        objField(fields[i],
                                                 Wrapped([kind |-> "LiteralNumber",
                                                          OriginalString |-> "9"], 1))]]],
         Body |-> [kind |-> "PartialIndex", Target |-> [kind |-> "Var", Id |-> path[1]],
                   Loc |-> createRange(1, end, 1, end)],
         Loc |-> createRange(1, 1, 1, end)]

\* text.Truncate(source, pos): the text before the cursor, on line 1.
Truncate(source, pos) == SubSeq(source, 1, pos.Column - 1)

\* As IndexItems, with nothing offered for an object.
IndexItems_none(node) == <<>>

\* The switch of handleIndex on se.Node: one item per field of an object.
IndexItems(node) ==
    IF node.kind = "DesugaredObject"
    THEN [i \in 1..Len(node.Fields) |->
             [Label |-> TokenValue(node.Fields[i].Name),
              NewText |-> TokenValue(node.Fields[i].Name),
              Kind |-> "CIKVariable",
              Detail |-> TokenName(node.Fields[i].Body)]]
    ELSE <<>>

\* handleIndex(ctx, pos, filePath, source)
handleIndex(tree, source, pos, endIncl) ==
    LET scope == LocationScope(tree, pos, endIncl)
        path == resolveIndex(Truncate(source, pos))
        names == [i \in 1..Len(path.path) |->
                     IF Len(path.path[i]) = 1 THEN path.path[i][1] ELSE "?"]
        se == GetInPath(scope, names)
    IN  IF path.err # "nil"
        THEN [err |-> path.err, items |-> <<>>]
        ELSE IF se.err # "nil"
        THEN [err |-> se.err, items |-> <<>>]
        ELSE [err |-> "nil", items |-> IndexItems(se.Node)]

FieldSeqs ==
    {fs \in UNION {[1..n -> FieldNames \cup {"c"}] : n \in 1..MaxFields} :
        \A i, j \in 1..Len(fs) : fs[i] = fs[j] => i = j}

IndexPaths == {<<"o">>, <<"x">>, <<"o", "a">>, <<"o", "x">>, <<"o", "a", "b">>}

\* Completion is asked for at the cursor of the request.
handleIndexCall ==
    /\ probe.op = "handleIndex"
    /\ probe.pc = "request"
    /\ LET source == IndexText(probe.fields, probe.path, probe.closers)
       IN  probe' = [probe EXCEPT
                        !.pc = "replied",
                        !.result = handleIndex(
                                       IndexTree(probe.fields, probe.path, probe.closers),
                                       source,
                                       createLoc(1, Len(source) + 1 - probe.back),
                                       probe.endIncl)]
    /\ UNCHANGED ServerVars

\* Every source within the bounds, with the cursor at its end or up to
\* MaxCoord characters before it.
InitComplete ==
    /\ ServerInit
    /\ \E fs \in FieldSeqs, pa \in IndexPaths, e \in BOOLEAN, k \in 0..MaxCoord,
          cl \in {c \in CloserSeqs : Len(c) <= 1} :
           probe = [op |-> "handleIndex", pc |-> "request", fields |-> fs,
                    path |-> pa, closers |-> cl, back |-> k, endIncl |-> e,
                    result |-> "none"]

NextComplete == handleIndexCall

SpecComplete == InitComplete /\ [][NextComplete]_vars

(***************************************************************************)
(* pkg/config: the Dispatcher. probe holds the dispatcher and the threads  *)
(* using it: the caller of Watch, cancel and Dispatch, and the goroutines  *)
(* Dispatch starts.                                                        *)
(*   keys      d.keys: the registered watchers, by the number of their uuid *)
(*   next      uuids issued so far                                         *)
(*   mu        d.mu: "free" or "Dispatch" (Watch and cancel take and       *)
(*             release it within one step)                                 *)
(*   ndisp     Dispatch calls made; cur: the one in progress (0: none)     *)
(*   seen      keys the range loop of the call in progress has visited     *)
(*   at, gone  per Dispatch call: d.keys and the cancelled watchers when   *)
(*             the call took the lock                                      *)
(*   cancelled watchers whose cancel function has returned                 *)
(*   gor       per watcher and Dispatch call: goroutines started (n), the  *)
(*             position of the goroutine (pc), what fn does (act) and the  *)
(*             watcher whose cancel it calls (target)                      *)
(*   errors    errors logged by the goroutines                             *)
(***************************************************************************)
MaxDispatches == 2

\* The uuids Watch can draw, in the order it draws them.
WatcherIds == {1, 2}

MaxWatchers == Cardinality(WatcherIds)

DispatchIds == 1..MaxDispatches

NoGoroutine == [n |-> 0, pc |-> "none", act |-> "none", target |-> 0]

NewDispatcher ==
    [op |-> "dispatcher", keys |-> {}, next |-> 0, mu |-> "free",
     ndisp |-> 0, cur |-> 0, seen |-> {},
     at |-> [v \in DispatchIds |-> {}], gone |-> [v \in DispatchIds |-> {}],
     cancelled |-> {},
     gor |-> [g \in WatcherIds \X DispatchIds |-> NoGoroutine],
     errors |-> 0]

\* Goroutines inside fn that are about to call d.Watch.
Registering ==
    {g \in WatcherIds \X DispatchIds : probe.gor[g].pc = "lockWatch"}

\* d.Watch(fn): under the lock, fn is stored under a new uuid.
DispatcherWatch(d) ==
    [d EXCEPT !.keys = @ \cup {d.next + 1}, !.next = @ + 1]

\* The cancel function of watcher k: under the lock, delete(d.keys, u).
DispatchCancelFn(d, k) ==
    [d EXCEPT !.keys = @ \ {k}, !.cancelled = @ \cup {k}]

\* The caller registers a watcher.
dispatcherWatch ==
    /\ probe.op = "dispatcher"
    /\ probe.cur = 0
    /\ probe.mu = "free"
    /\ probe.next + Cardinality(Registering) < MaxWatchers
    /\ probe' = DispatcherWatch(probe)
    /\ UNCHANGED ServerVars

\* The caller calls the cancel function Watch returned for watcher k, for the
\* first time or again.
dispatcherCancel(k) ==
    /\ probe.op = "dispatcher"
    /\ probe.cur = 0
    /\ probe.mu = "free"
    /\ k \in 1..probe.next
    /\ probe' = DispatchCancelFn(probe, k)
    /\ UNCHANGED ServerVars

\* As DispatchLock, had Dispatch ranged over d.keys without holding d.mu.
DispatchLock_unlocked ==
    /\ probe.op = "dispatcher"
    /\ probe.cur = 0
    /\ probe.mu = "free"
    /\ probe.ndisp < MaxDispatches
    /\ probe' = [probe EXCEPT !.ndisp = @ + 1, !.cur = probe.ndisp + 1,
                              !.seen = {},
                              !.at[probe.ndisp + 1] = probe.keys,
                              !.gone[probe.ndisp + 1] = probe.cancelled]
    /\ UNCHANGED ServerVars

\* Dispatch(v): d.mu.Lock(); defer d.mu.Unlock()
DispatchLock ==
    /\ probe.op = "dispatcher"
    /\ probe.cur = 0
    /\ probe.mu = "free"
    /\ probe.ndisp < MaxDispatches
    /\ probe' = [probe EXCEPT !.mu = "Dispatch",
                              !.ndisp = @ + 1, !.cur = probe.ndisp + 1,
                              !.seen = {},
                              !.at[probe.ndisp + 1] = probe.keys,
                              !.gone[probe.ndisp + 1] = probe.cancelled]
    /\ UNCHANGED ServerVars

\* One round of `for _, fn := range d.keys { go func(fn) {...}(fn) }`.
DispatchGo(fn) ==
    /\ probe.op = "dispatcher"
    /\ probe.cur # 0
    /\ fn \in probe.keys \ probe.seen
    /\ probe' = [probe EXCEPT !.seen = @ \cup {fn},
                              !.gor[<<fn, probe.cur>>].n = @ + 1,
                              !.gor[<<fn, probe.cur>>].pc = "spawned"]
    /\ UNCHANGED ServerVars

\* The range is over: Dispatch returns and the deferred Unlock runs.
DispatchReturn ==
    /\ probe.op = "dispatcher"
    /\ probe.cur # 0
    /\ probe.keys \ probe.seen = {}
    /\ probe' = [probe EXCEPT !.mu = "free", !.cur = 0, !.seen = {}]
    /\ UNCHANGED ServerVars

\* What a watcher may do with the value: return nil, return an error, call
\* Watch on the dispatcher, or call the cancel function of watcher k.
WatcherActs == {"ok", "err", "Watch", "cancel"}

\* The goroutine runs fn(v) up to fn's return or to its call of the
\* dispatcher; an error fn returns is logged.
watcherRun(g, act, k) ==
    /\ probe.op = "dispatcher"
    /\ probe.gor[g].pc = "spawned"
    /\ act = "Watch" => probe.next + Cardinality(Registering) < MaxWatchers
    /\ k \in (IF act = "cancel" THEN 1..probe.next ELSE {0})
    /\ probe' = [probe EXCEPT
                    !.gor[g].act = act,
                    !.gor[g].target = k,
                    !.gor[g].pc = CASE act = "Watch" -> "lockWatch"
                                    [] act = "cancel" -> "lockCancel"
                                    [] OTHER -> "done",
                    !.errors = IF act = "err" THEN @ + 1 ELSE @]
    /\ UNCHANGED ServerVars

\* The call fn made takes d.mu, does its work and releases it; fn returns nil.
watcherLocked(g) ==
    /\ probe.op = "dispatcher"
    /\ probe.gor[g].pc \in {"lockWatch", "lockCancel"}
    /\ probe.mu = "free"
    /\ probe' = [(IF probe.gor[g].pc = "lockWatch"
                    THEN DispatcherWatch(probe)
                    ELSE DispatchCancelFn(probe, probe.gor[g].target))
                 EXCEPT !.gor[g].pc = "done"]
    /\ UNCHANGED ServerVars

InitDispatcher ==
    /\ ServerInit
    /\ probe = NewDispatcher

\* The steps of Dispatch and of the goroutines it started.
DispatchSteps ==
    \/ \E fn \in WatcherIds : DispatchGo(fn)
    \/ DispatchReturn
    \/ \E g \in WatcherIds \X DispatchIds, act \in WatcherActs, k \in 0..MaxWatchers :
           watcherRun(g, act, k)
    \/ \E g \in WatcherIds \X DispatchIds : watcherLocked(g)

NextDispatcher ==
    \/ dispatcherWatch
    \/ \E k \in WatcherIds : dispatcherCancel(k)
    \/ DispatchLock
    \/ DispatchSteps

SpecDispatcher == InitDispatcher /\ [][NextDispatcher]_vars

(***************************************************************************)
(* Handler.Handle, one request at a time. probe holds the request, what    *)
(* its operation does, the position of Handle and the responses sent on    *)
(* the connection.                                                         *)
(***************************************************************************)
operations ==
    {"completionItem/resolve", "initialize", "textDocument/completion",
     "textDocument/didChange", "textDocument/didClose", "textDocument/didOpen",
     "textDocument/didSave", "textDocument/documentHighlight",
     "textDocument/documentSymbol", "textDocument/hover",
     "textDocument/references", "textDocument/signatureHelp",
     "updateClientConfiguration"}

\* Methods a client sends: those of the table and some that are not in it.
Methods == operations \cup {"shutdown", "exit", "$/cancelRequest"}

\* What the operation of a request does: it returns a response, returns an
\* error, or panics.
Outcomes == {"response", "error", "panic"}

\* fn, ok := operations[req.Method]; an unknown method is logged (with a
\* panic, recovered by the deferred function, when the request has no
\* params) and Handle returns.
handleLookup ==
    /\ probe.op = "Handle"
    /\ probe.pc = "request"
    /\ probe' = [probe EXCEPT
                    !.pc = IF probe.method \in operations THEN "operation"
                           ELSE "returned",
                    !.recovered = probe.method \notin operations /\ ~probe.params]
    /\ UNCHANGED ServerVars

\* response, err := fn(ctx, r, lh.config); a panic of fn is recovered by the
\* deferred function and Handle returns.
handleOperation ==
    /\ probe.op = "Handle"
    /\ probe.pc = "operation"
    /\ probe' = [probe EXCEPT
                    !.pc = CASE probe.outcome = "response" -> "reply"
                             [] probe.outcome = "error" -> "replyWithError"
                             [] OTHER -> "returned",
                    !.recovered = probe.outcome = "panic"]
    /\ UNCHANGED ServerVars

\* As handleReplyWithError without the return that follows the call.
handleReplyWithError_noReturn ==
    /\ probe.op = "Handle"
    /\ probe.pc = "replyWithError"
    /\ probe' = [probe EXCEPT
                    !.pc = "reply",
                    !.sent = Append(@, [kind |-> "error",
                                        code |-> "CodeInternalError"])]
    /\ UNCHANGED ServerVars

\* conn.ReplyWithError(ctx, req.ID, msg); return
handleReplyWithError ==
    /\ probe.op = "Handle"
    /\ probe.pc = "replyWithError"
    /\ probe' = [probe EXCEPT
                    !.pc = "returned",
                    !.sent = Append(@, [kind |-> "error",
                                        code |-> "CodeInternalError"])]
    /\ UNCHANGED ServerVars

\* conn.Reply(ctx, req.ID, response)
handleReply ==
    /\ probe.op = "Handle"
    /\ probe.pc = "reply"
    /\ probe' = [probe EXCEPT
                    !.pc = "returned",
                    !.sent = Append(@, [kind |-> "result", code |-> "none"])]
    /\ UNCHANGED ServerVars

\* Every request: a method, with or without params, and what its operation
\* does when there is one.
InitHandle ==
    /\ ServerInit
    /\ \E m \in Methods, pa \in BOOLEAN, o \in Outcomes :
           probe = [op |-> "Handle", pc |-> "request", method |-> m,
                    params |-> pa, outcome |-> o, recovered |-> FALSE,
                    sent |-> <<>>]

NextHandle ==
    \/ handleLookup
    \/ handleOperation
    \/ handleReplyWithError
    \/ handleReply

SpecHandle == InitHandle /\ [][NextHandle]_vars

(***************************************************************************)
(* Properties of the node cache under concurrent handlers.                 *)
(***************************************************************************)
Finished(j) == jobs[j].rpc \in {"sentDone", "sentErr"}

\* C1: Get never returns a tree older than the text of an Update whose
\* rebuild has completed, however two overlapping rebuilds finish.
C1_GetNeverOlderThanCompleted ==
    Get # Absent => \A v \in Completed : Get >= v

\* C2: once the rebuild of t1 has completed and Update(t2) is then issued
\* (no Update after it, no Remove), a Get that returned the tree of t2 is
\* never followed by one returning the tree of t1.
C2_NeverRevertsToEarlierTree ==
    [][\A j1, j2 \in JobIds :
          (/\ j2 = Len(jobs)
           /\ Len(jobs') = Len(jobs)
           /\ closes = 0
           /\ jobs[j1].issue \in jobs[j2].prevDone
           /\ jobs[j1].issue # jobs[j2].issue
           /\ Get = jobs[j2].issue)
          => cache' # jobs[j1].issue]_vars

\* C3: once Remove has returned, Get returns absent until a new Update is
\* issued, whatever rebuild was in flight.
C3_AbsentAfterRemove ==
    removedClean => Get = Absent

\* C6: the step that handles a didOpen or didSave returns to Handle with the
\* reply to send, leaves the cache entry alone and leaves the rebuild it
\* started at its start; Handle can send the reply whatever the rebuilds are
\* doing, and the next request is handled once it has; the entry changes only
\* when a rebuild stores its tree or closeFile removes it.
C6_UpdateIsAsynchronous ==
    [][/\ Len(jobs') > Len(jobs) =>
            /\ handling' = "reply"
            /\ cache' = cache
            /\ jobs'[Len(jobs')].rpc = "start"
       /\ handling = "reply" => ENABLED Reply
       /\ replies' > replies => (jobs' = jobs /\ handling' = "none")
       /\ cache' # cache =>
            \/ \E j \in JobIds : /\ jobs[j].rpc = "read"
                                 /\ jobs'[j].rpc = "stored"
                                 /\ cache' = jobs[j].tree
            \/ closing' < closing /\ cache' = Absent]_vars

\* C6 witness: a request has been replied to while its rebuild is still
\* running and Get still returns the tree of the earlier rebuild.
C6_Witness ==
    \E j1, j2 \in JobIds :
        /\ j1 < j2
        /\ jobs[j2].rpc = "read"
        /\ Finished(j1)
        /\ Get = jobs[j1].tree
        /\ Get # Absent
        /\ replies >= 2

\* C7: every document-change event starts a rebuild of the path's entry;
\* in particular every didChange does.
C7_EveryChangeStartsRebuild ==
    [][changes' > changes => Len(jobs') = Len(jobs) + 1]_vars

(***************************************************************************)
(* Properties of the notifications sent by updateNodeCache.                *)
(***************************************************************************)
\* C4: a rebuild whose timer fired before it finished sends exactly one
\* "is running" and, once it has completed and the loop has returned, exactly
\* one "is complete"; never a "complete" without a "running", never twice.
C4_RunningThenCompleteOnce ==
    \A j \in JobIds :
        /\ jobs[j].running <= 1
        /\ jobs[j].complete <= jobs[j].running
        /\ (jobs[j].firedFirst /\ jobs[j].wdone /\ jobs[j].out = "done")
              => (jobs[j].running = 1 /\ jobs[j].complete = 1)

\* C5: a rebuild whose completion signal was on the done channel before the
\* timer fired sends no notification at all.
C5_QuickRebuildNotifiesNothing ==
    \A j \in JobIds :
        (jobs[j].out = "done" /\ ~jobs[j].firedFirst)
            => (jobs[j].running = 0 /\ jobs[j].complete = 0)

ExpectedDiagnostics(t, n) ==
    [i \in 1..n |->
        [Range |-> [Start |-> [Line |-> i - 1, Character |-> t - 1],
                    End |-> [Line |-> i - 1, Character |-> t]],
         Message |-> <<t, i>>,
         Severity |-> "Error"]]

\* C9: a Process call that was given a connection and has returned nil has
\* sent exactly one publishDiagnostics notification for the document, and
\* its list is exactly the diagnostics of that call's own parse, in the order
\* the parse emitted them, each of Error severity; no call ever has sent
\* more than one notification, and none before it returns.
C9_PublishesOwnParseOnce ==
    \A p \in ProcIds :
        /\ Len(procs[p].published) <= 1
        /\ procs[p].pc # "returned" => procs[p].published = <<>>
        /\ (procs[p].pc = "returned" /\ procs[p].conn) =>
               procs[p].published =
                   <<[URI |-> DocURI,
                      Diagnostics |-> ExpectedDiagnostics(procs[p].text, procs[p].n)]>>

\* Two calls for two versions of the document, each with a connection and
\* MaxDiags diagnostics, have both returned.
C9_Witness ==
    /\ Cardinality(ProcIds) >= 2
    /\ \A p \in ProcIds :
           /\ procs[p].pc = "returned"
           /\ procs[p].conn
           /\ procs[p].n = MaxDiags
           /\ Len(procs[p].published) = 1

\* The protocol between Parse, the consumer goroutine and Process.
C10_Protocol ==
    \A p \in ProcIds :
        \* the consumer closes done only once diagCh is closed and drained
        /\ procs[p].done => (procs[p].closed /\ procs[p].ch = <<>>)
        \* whenever Parse waits on a full diagCh the consumer is still receiving
        /\ (procs[p].pc = "parse" /\ Len(procs[p].ch) = DiagCap) => ~procs[p].done
        \* whenever Process waits on done, diagCh is closed
        /\ procs[p].pc = "wait" => procs[p].closed
        \* Process has read the list only after done: everything was received
        /\ procs[p].pc = "returned" =>
               /\ procs[p].done
               /\ procs[p].sent = procs[p].n
               /\ procs[p].conn => Len(procs[p].diagnostics) = procs[p].n

\* C10: Parse never waits for ever on the capacity-1 diagnostics channel:
\* the consumer goroutine receives until the channel is closed, Process reads
\* the list only after the consumer has closed done, and every Process call
\* that was started returns, whatever the number of diagnostics.
C10_ProcessTerminates ==
    /\ []C10_Protocol
    /\ \A t \in 1..MaxLive :
           (t \in ProcIds) ~> (t \in ProcIds /\ procs[t].pc \in {"returned", "failed"})

\* A call whose parse emitted more diagnostics than diagCh holds has returned
\* with all of them.
C10_Witness ==
    \E p \in ProcIds :
        /\ procs[p].pc = "returned"
        /\ procs[p].n = MaxDiags
        /\ procs[p].n > DiagCap
        /\ procs[p].conn
        /\ Len(procs[p].diagnostics) = MaxDiags

(***************************************************************************)
(* Properties of failed deliveries.                                        *)
(***************************************************************************)
\* C11: a conn.Notify that returns an error is never fatal. A Process call
\* whose Notify failed still returns nil, having made its one call; a watcher
\* loop whose showMessage failed goes on exactly as after a delivery: after
\* "running" it has sentNotif set and keeps selecting, after "complete" it
\* returns, and nothing else of the invocation differs.
C11_FailedNotifyChangesNothing ==
    [][/\ \A p \in ProcIds :
            procs'[p].lost > procs[p].lost =>
                /\ procs[p].pc = "wait"
                /\ procs'[p].pc = "returned"
                /\ Len(procs'[p].published) = 1
       /\ \A j \in JobIds :
            jobs'[j].lost > jobs[j].lost =>
                LET same == [jobs'[j] EXCEPT !.lost = jobs[j].lost]
                IN  \/ /\ jobs[j].timer = "fired"
                       /\ same = [jobs[j] EXCEPT !.timer = "taken",
                                                 !.sentNotif = TRUE,
                                                 !.running = @ + 1]
                       /\ ~jobs'[j].wdone
                    \/ /\ jobs[j].out = "done" /\ jobs[j].sentNotif
                       /\ same = [jobs[j] EXCEPT !.wdone = TRUE,
                                                 !.complete = @ + 1]]_vars

\* Both notifications of a rebuild were lost and its loop has returned, and
\* a Process call whose publishDiagnostics was lost has returned nil.
C11_Witness ==
    /\ \E j \in JobIds :
           /\ jobs[j].lost = 2
           /\ jobs[j].wdone
           /\ jobs[j].running = 1
           /\ jobs[j].complete = 1
    /\ \E p \in ProcIds :
           /\ procs[p].lost = 1
           /\ procs[p].pc = "returned"

(***************************************************************************)
(* Properties of panics.                                                   *)
(***************************************************************************)
\* C12: a panic while serving a request or a background rebuild is confined
\* to that activity: whatever has panicked, on the goroutine of Handle or on
\* a goroutine an operation has started, the service is still running.
C12_PanicConfined == panics > 0 => ~crashed

(***************************************************************************)
(* Properties of hover.                                                    *)
(***************************************************************************)
\* C13: coordinates are translated once in each direction: for a hover that
\* reaches the core (its document has a path and a text), the core is
\* queried at (line+1, character+1) of the request position, and every
\* coordinate of the returned range is the core's coordinate minus 1, so
\* the range of a token that begins at the queried location starts at the
\* request position itself and ends width characters after it.
C13_TranslatedExactlyOnce ==
    (probe.op = "hover" /\ probe.pc = "replied" /\ probe.doc = "stored") =>
        /\ probe.result.loc = [Line |-> probe.pos.Line + 1,
                               Column |-> probe.pos.Character + 1]
        /\ probe.result.loc = posToLoc(probe.pos)
        /\ probe.kind = "token" =>
               /\ probe.result.err = "nil"
               /\ probe.result.hover.Range.Start = probe.pos
               /\ probe.result.hover.Range.End =
                      [Line |-> probe.pos.Line,
                       Character |-> probe.pos.Character + probe.width]

\* A hover on a token away from the origin has been answered with a range.
C13_Witness ==
    /\ probe.op = "hover"
    /\ probe.pc = "replied"
    /\ probe.doc = "stored"
    /\ probe.kind = "token"
    /\ probe.pos = [Line |-> MaxCoord, Character |-> 1]
    /\ probe.result.hover.Range.End.Character = 1 + probe.width

(***************************************************************************)
(* Properties of completion.                                               *)
(***************************************************************************)
\* C15: for a text that ends with a dotted path, a dot and any number of
\* closers, resolveIndex returns exactly the identifiers of the path, in
\* order, and no element of its result contains a closer.
C15_ClosersStripped ==
    (probe.op = "resolveIndex" /\ probe.pc = "replied") =>
        /\ probe.result.err = "nil"
        /\ probe.result.path = probe.path
        /\ \A k \in 1..Len(probe.result.path) :
               \A i \in 1..Len(probe.result.path[k]) :
                   probe.result.path[k][i] \notin CloserChars

(***************************************************************************)
(* Properties of the object mapper.                                        *)
(***************************************************************************)
\* The path leads down the whole chain of a tree whose fields were all added.
FullPath ==
    /\ probe.op = "lookup"
    /\ probe.pc = "replied"
    /\ probe.path = probe.names
    /\ probe.wrapped
    /\ probe.added >= Len(probe.names)

\* C19 as stated: resolving a dotted path down to a field returns the range
\* of that field's value: for {a:{b:'c'}} and <<"a","b">>, that of 'c'.
C19_PathGivesValueRange ==
    FullPath =>
        /\ probe.result.err = "nil"
        /\ probe.result.loc.Range.Start.Column = probe.col + 4 * Len(probe.names)
        /\ probe.result.loc.Range.End.Column = probe.col + 4 * Len(probe.names) + 3

\* C19 amended: resolving a dotted path down to a field returns the range
\* of that field's name, the range FieldLocs of its object holds for it:
\* for {a:{b:'c'}} and <<"a","b">>, the range of b.
C19_PathGivesFieldNameRange ==
    FullPath =>
        /\ probe.result.err = "nil"
        /\ probe.result.loc.FileName = "file.jsonnet"
        /\ probe.result.loc.Range.Start =
               createLoc(1, probe.col + 4 * (Len(probe.names) - 1) + 1)
        /\ probe.result.loc.Range.End =
               createLoc(1, probe.col + 4 * (Len(probe.names) - 1) + 2)

\* {a: {b: 'c'}} at column 1 and the path <<"a","b">>: columns 6 to 7.
C19_Witness ==
    /\ FullPath
    /\ probe.names = <<"a", "b">>
    /\ probe.col = 1
    /\ probe.result.loc.Range = [Start |-> createLoc(1, 6), End |-> createLoc(1, 7)]

\* The objects of the request that have a computed key under the position.
OnComputedKey ==
    LET os == ObjectsOf(ObjectOf(probe.kinds))
    IN  {i \in 1..Len(os) :
            \E e \in os[i].FieldLocs :
                /\ e.keyKind = "Var"
                /\ IsInJsonnetRange(probe.pos, e.loc, probe.endIncl)}

\* C20: at a position on the name of a field with a computed name,
\* fieldNameAt on the object of that field returns the "unsupported" error
\* and no name or range, and pathToLocation returns an error and neither a
\* path nor a range.
C20_ComputedKeyUnsupported ==
    (/\ probe.op = "pathToLocation"
     /\ probe.pc = "replied"
     /\ OnComputedKey # {}) =>
        /\ \A i \in OnComputedKey :
               probe.named[i] = [err |-> "variable keys are unsupported",
                                 name |-> "", r |-> "zero"]
        /\ probe.result.err # "nil"
        /\ probe.result.path = <<>>
        /\ probe.result.loc = "zero"

\* Lookups were made on a computed key of the object itself, after a
\* function field, and on a computed key of a nested object.
C20_Witness ==
    /\ probe.op = "pathToLocation"
    /\ probe.pc = "replied"
    /\ probe.kinds = <<"fn", "objComputed">>
    /\ OnComputedKey = {2}
    /\ probe.result.err # "nil"

(***************************************************************************)
(* Properties of Scope.GetInPath.                                          *)
(***************************************************************************)
\* The paths that lead somewhere in o = {data: {a, b: {c}}, str}, and where:
\* below data only when its body is the object under one wrapper, below b
\* likewise.
Reached(w1, w2) ==
    LET data == Wrapped(nodeData(w2), w1 - 1)
        b == Wrapped(nodeB, w2 - 1)
        top == {<< <<"o">>, nodeO(w1, w2) >>,
                << <<"o", "data">>, data >>,
                << <<"o", "str">>, createLiteralString("str") >>}
        mid == IF w1 = 1
               THEN {<< <<"o", "data", "a">>, createLiteralString("a") >>,
                     << <<"o", "data", "b">>, b >>}
               ELSE {}
        low == IF w1 = 1 /\ w2 = 1
               THEN {<< <<"o", "data", "b", "c">>, createLiteralString("a") >>}
               ELSE {}
    IN  top \cup mid \cup low

\* C18: GetInPath succeeds exactly on the paths whose head is bound and
\* whose later segments each name a field of the object reached so far,
\* every body being unwrapped through exactly one Local; the entry's Node is
\* then the node reached. An unbound head is an "unresolved identifier", a
\* segment below a node that is not an object is "not indexable", and a
\* segment that names no field is an error.
C18_GetInPathResolves ==
    (probe.op = "GetInPath" /\ probe.pc = "replied") =>
        LET reached == Reached(probe.w1, probe.w2)
            ok == \E e \in reached : e[1] = probe.path
        IN  /\ probe.result.err = "nil" <=> ok
            /\ ok => \E e \in reached : e[1] = probe.path /\ e[2] = probe.result.Node
            /\ probe.path[1] # "o" => probe.result.err = "unresolved identifier"
            /\ (Len(probe.path) >= 3 /\ SubSeq(probe.path, 1, 2) = <<"o", "str">>)
                   => probe.result.err = "not indexable"
            /\ (Len(probe.path) >= 3 /\ SubSeq(probe.path, 1, 2) = <<"o", "data">>
                    /\ probe.w1 = 2)
                   => probe.result.err = "not indexable"
            /\ (Len(probe.path) = 2 /\ probe.path[1] = "o"
                    /\ probe.path[2] \notin {"data", "str"})
                   => probe.result.err = "field not found"

\* The path <<"o","data","b">> was resolved to the object b.
C18_Witness ==
    /\ probe.op = "GetInPath"
    /\ probe.pc = "replied"
    /\ probe.path = <<"o", "data", "b">>
    /\ probe.w1 = 1
    /\ probe.w2 = 1
    /\ probe.result = [err |-> "nil", Node |-> nodeB]

(***************************************************************************)
(* Properties of LocationScope.                                            *)
(***************************************************************************)
\* The body of the i-th local of the request holds the position: it begins
\* LocalWidth columns after the local and, unless the source ends with a
\* variable, has no end.
BodyHoldsPosition(i) ==
    LET begin == 1 + i * LocalWidth
        last == 1 + Len(probe.binds) * LocalWidth
    IN  IF probe.tail = "var"
        THEN /\ probe.pos.Line = 1
             /\ probe.pos.Column >= begin
             /\ probe.pos.Column <= (IF probe.endIncl THEN last + 1 ELSE last)
        ELSE \/ probe.pos.Line > 1
             \/ probe.pos.Column >= (IF i = Len(probe.binds) /\ probe.tail = "partialIndex"
                                     THEN begin + 2 ELSE begin)

\* C17: the scope at a position holds std and the binds of every local whose
\* body encloses the position, also when that body is a partial node or the
\* position lies past the end of the text; Keys lists each identifier once.
C17_ScopeHasStdAndEnclosingBinds ==
    (probe.op = "LocationScope" /\ probe.pc = "replied") =>
        LET keys == {probe.result[k] : k \in 1..Len(probe.result)}
        IN  /\ "std" \in keys
            /\ \A i \in 1..Len(probe.binds) :
                   BodyHoldsPosition(i) => probe.binds[i] \subseteq keys
            /\ Cardinality(keys) = Len(probe.result)

\* local a="a"; with nothing after it, asked on the line after the text.
C17_Witness ==
    /\ probe.op = "LocationScope"
    /\ probe.pc = "replied"
    /\ probe.binds = <<{"a"}>>
    /\ probe.tail = "partial"
    /\ probe.pos = [Line |-> 2, Column |-> 1]
    /\ probe.result = <<"a", "std">>

(***************************************************************************)
(* Properties of index completion.                                         *)
(***************************************************************************)
\* C16: completion at the trailing dot of the truncated document
\* local o={...}; o.  returns, without an error, one candidate for each
\* field of the object bound to o, in the order of the fields: for
\* local o={a:9}; o.  the candidate a.
C16_CompletionOnTruncatedText ==
    (/\ probe.op = "handleIndex"
     /\ probe.pc = "replied"
     /\ probe.path = <<"o">>
     /\ probe.closers = <<>>
     /\ probe.back = 0) =>
        /\ probe.result.err = "nil"
        /\ Len(probe.result.items) = Len(probe.fields)
        /\ \A i \in 1..Len(probe.fields) :
               /\ probe.result.items[i].Label = probe.fields[i]
               /\ probe.result.items[i].NewText = probe.fields[i]

\* local o={a:9}; o.  with the cursor after the dot: the candidate is a.
C16_Witness ==
    /\ probe.op = "handleIndex"
    /\ probe.pc = "replied"
    /\ probe.fields = <<"a">>
    /\ probe.path = <<"o">>
    /\ probe.closers = <<>>
    /\ probe.back = 0
    /\ probe.result.err = "nil"
    /\ Len(probe.result.items) = 1
    /\ probe.result.items[1].Label = "a"

(***************************************************************************)
(* Properties of objectMapper.lookup on indexed and unindexed fields.      *)
(***************************************************************************)
\* The i-th object of the chain is the one the first i-1 segments lead to.
MapperReached(i) ==
    /\ i <= Len(probe.names)
    /\ i > 1 => /\ probe.wraps = 1
                /\ \A k \in 1..(i - 1) : probe.path[k] = probe.names[k]

\* add was called with the i-th segment for the object reached so far.
SegmentAdded(i) ==
    /\ MapperReached(i)
    /\ probe.path[i] = probe.names[i]
    /\ i \in probe.added

\* The range of the key of the named field of the i-th object.
KeyRange(i) ==
    LET key == 1 + (i - 1) * 3 + i * (IF probe.lead THEN 1 + LeadWidth ELSE 1)
    IN  [Start |-> createLoc(1, key), End |-> createLoc(1, key + 1)]

\* C23: lookup succeeds exactly when every segment of the path was added
\* for the object reached so far, and then returns the range recorded for
\* the name of the last segment's field; a segment never added fails with
\* "does not exist", and a field that is indexed but whose body is not an
\* object under exactly one Local fails with another error.
C23_SucceedsIffEverySegmentAdded ==
    (probe.op = "mapper" /\ probe.pc = "replied") =>
        LET first == {i \in 1..Len(probe.path) : ~SegmentAdded(i)}
        IN  /\ probe.result.err = "nil" <=> first = {}
            /\ first = {} => probe.result.loc.Range = KeyRange(Len(probe.path))
            /\ \A i \in first :
                   (/\ \A k \in first : i <= k
                    /\ MapperReached(i)) =>
                       probe.result.err = "field does not exist in object"
            /\ \A i \in first :
                   (/\ \A k \in first : i <= k
                    /\ ~MapperReached(i)) =>
                       probe.result.err \in {"field doesn't have local scope",
                                             "expected body to be an object"}

(***************************************************************************)
(* Properties of pathToLocation.                                           *)
(***************************************************************************)
\* The answer the candidate regions of an object give when they are tried
\* in the order of the claim: the ranges of the names first; then, field by
\* field, the range of the body (a body that is an object under one Local
\* is searched in the same way) and then the ranges of the required
\* parameters of a function body. The first region that holds the position
\* decides. A field whose name is not a literal string has no name to
\* answer with and offers no region.
RECURSIVE ByRegions(_, _, _)
ByRegions(o, pos, endIncl) ==
    LET keys == {e \in o.FieldLocs :
                    e.keyKind = "string" /\ IsInJsonnetRange(pos, e.loc, endIncl)}
        named(i) == o.Fields[i].Name.kind = "LiteralString"
        keyOf(i) == CHOOSE e \in o.FieldLocs :
                        e.keyKind = "string" /\ e.key = o.Fields[i].Name.Value
        fn(i) == o.Fields[i].Body.Body
        params(i) == IF named(i) /\ fn(i).kind = "Function"
                     THEN {k \in 1..Len(fn(i).Required) :
                              IsInJsonnetRange(pos, fn(i).RequiredLocs[fn(i).Required[k]],
                                               endIncl)}
                     ELSE {}
        inBody(i) == /\ named(i)
                     /\ IsInJsonnetRange(pos, o.Fields[i].Body.Loc, endIncl)
        hits == {i \in 1..Len(o.Fields) : inBody(i) \/ params(i) # {}}
    IN  IF keys # {}
        THEN LET e == CHOOSE h \in keys : TRUE
             IN  [err |-> "nil", path |-> <<e.key>>, loc |-> FromJsonnetRange(e.loc)]
        ELSE IF hits = {}
        THEN PathErr("position could not be identified")
        ELSE
        LET i == CHOOSE m \in hits : \A n \in hits : m <= n
            name == o.Fields[i].Name.Value
        IN  IF ~inBody(i)
            THEN LET k == CHOOSE m \in params(i) : \A n \in params(i) : m <= n
                 IN  [err |-> "nil", path |-> <<name>>,
                      loc |-> FromJsonnetRange(fn(i).RequiredLocs[fn(i).Required[k]])]
            ELSE IF fn(i).kind = "DesugaredObject"
            THEN LET op == ByRegions(fn(i), pos, endIncl)
                 IN  IF op.err # "nil" THEN op
                     ELSE [op EXCEPT !.path = <<name>> \o @]
            ELSE [err |-> "nil", path |-> <<name>>,
                  loc |-> FromJsonnetRange(keyOf(i).loc)]

\* Two answers of a lookup agree: the same path and range, or both an error.
SameAnswer(a, b) ==
    IF a.err = "nil" /\ b.err = "nil" THEN a = b ELSE a.err # "nil" /\ b.err # "nil"

\* C24: the regions are tried in the order field name, field body,
\* parameters of a function body, and the first that holds the position
\* decides the result of pathToLocation.
C24_NameThenBodyThenParams ==
    (probe.op = "pathToLocation" /\ probe.pc = "replied") =>
        SameAnswer(probe.result,
                   ByRegions(ObjectOf(probe.kinds), probe.pos, probe.endIncl))

\* The column at which the i-th field of the object of the request begins,
\* and whether the position lies in the columns lo..hi of line 1.
FieldBegin(i) == 2 + (i - 1) * SlotWidth

PosIn(lo, hi) == IsInJsonnetRange(probe.pos, createRange(1, lo, 1, hi), probe.endIncl)

ColRange(lo, hi) == [Start |-> createLoc(1, lo), End |-> createLoc(1, hi)]

\* C25: the shapes of the result of pathToLocation, for the i-th field
\* named n of the object:
\*   on the name of the field: the path <<n>> and the range of the name;
\*   in a body that is not an object: <<n>> and the range of the NAME;
\*   in the body that is a nested object, on or in its field x:
\*     <<n, x>> and the range of the name of x;
\*   on a required parameter of a function field: <<n>> and the range of
\*     the parameter.
C25_ResultShapes ==
    (probe.op = "pathToLocation" /\ probe.pc = "replied") =>
        \A i \in 1..Len(probe.kinds) :
            LET b == FieldBegin(i)
                n == FieldIds[i]
                kind == probe.kinds[i]
                shape(path, lo, hi) ==
                    /\ probe.result.err = "nil"
                    /\ probe.result = [err |-> "nil", path |-> path,
                                       loc |-> ColRange(lo, hi)]
            IN  /\ (kind \in {"lit", "objLit", "objComputed"} /\ PosIn(b, b + 1)) =>
                       shape(<<n>>, b, b + 1)
                /\ (kind = "fn" /\ PosIn(b, b + 2)) => shape(<<n>>, b, b + 2)
                /\ (kind = "lit" /\ ~PosIn(b, b + 1) /\ PosIn(b + 2, b + 5)) =>
                       shape(<<n>>, b, b + 1)
                /\ (kind = "fn" /\ PosIn(b + 7, b + 8)) => shape(<<n>>, b, b + 2)
                /\ (kind = "objLit" /\ (PosIn(b + 3, b + 4) \/ PosIn(b + 5, b + 8))) =>
                       shape(<<n, "x">>, b + 3, b + 4)
                /\ (kind = "fn" /\ ~PosIn(b, b + 2) /\ PosIn(b + 3, b + 4)) =>
                       shape(<<n>>, b + 3, b + 4)

(***************************************************************************)
(* Properties of locateNode.                                               *)
(***************************************************************************)
\* The number of characters of the text of the request, all on line 1.
TextLen ==
    Len(probe.binds) * LocalWidth
    + (CASE probe.tail = "var" -> 1
         [] probe.tail = "partial" -> 0
         [] probe.tail = "partialIndex" -> 2)

\* The position lies outside the text: on another line, or left of column 1
\* or right of the cursor position at the end of the text.
OutsideText ==
    \/ probe.pos.Line # 1
    \/ probe.pos.Column < 1
    \/ probe.pos.Column > TextLen + 1

\* The position lies at or after the begin of the partial node the text
\* ends with.
InPartial ==
    /\ probe.tail \in {"partial", "partialIndex"}
    /\ \/ probe.pos.Line > 1
       \/ probe.pos.Line = 1 /\ probe.pos.Column >= TextLen + 1

\* The partial node the text ends with.
IsTrailingPartial(n) ==
    /\ n.kind = (IF probe.tail = "partial" THEN "Partial" ELSE "PartialIndex")
    /\ n.Loc.Begin = createLoc(1, TextLen + 1)

\* C22 as stated: at every position outside the total range of the
\* document the result is NotFound, never a node, and at a position inside
\* a partial node the result is that partial node.
C22_OutsideTextIsNotFound ==
    (probe.op = "locateNode" /\ probe.pc = "replied") =>
        /\ OutsideText => probe.result = NotFound
        /\ (InPartial /\ ~OutsideText) => IsTrailingPartial(probe.result)

\* C22 amended: the result is NotFound at every position before the begin
\* of the tree and, when the text is complete, at every position outside
\* the text; when the text ends with a partial node, every position from
\* the begin of that node on, also past the end of the text, yields the
\* partial node.
C22_PartialReachesPastTheText ==
    (probe.op = "locateNode" /\ probe.pc = "replied") =>
        /\ (OutsideText /\ ~InPartial) => probe.result = NotFound
        /\ InPartial => IsTrailingPartial(probe.result)
        /\ probe.result # NotFound =>
               probe.result.kind \in {"Local", "Var", "Partial", "PartialIndex"}

\* local a="a"; asked at (2,1), past the end of the text: the Partial that
\* begins at (1,13).
C22_Witness ==
    /\ probe.op = "locateNode"
    /\ probe.pc = "replied"
    /\ probe.binds = <<{"a"}>>
    /\ probe.tail = "partial"
    /\ probe.pos = createLoc(2, 1)
    /\ probe.result.kind = "Partial"
    /\ probe.result.Loc = createRange(1, 13, 1, 13)

(***************************************************************************)
(* Properties of Parse.                                                    *)
(***************************************************************************)
\* The nodes of a tree that stand for a missing expression, each with its
\* kind, the column at which it begins and, for a PartialIndex, the
\* variable it keeps as its target.
RECURSIVE Holes(_)
Holes(n) ==
    LET seqHoles(q, part(_)) == UNION {Holes(part(q[i])) : i \in 1..Len(q)}
        bindBody(b) == b.Body
        fieldBody(f) == f.Expr2
    IN  CASE n.kind = "nil" -> {[kind |-> "nil", col |-> 0, target |-> ""]}
          [] n.kind = "Partial" ->
                 {[kind |-> "Partial", col |-> n.Loc.Begin.Column, target |-> ""]}
          [] n.kind = "PartialIndex" ->
                 {[kind |-> "PartialIndex", col |-> n.Loc.Begin.Column,
                   target |-> n.Target.Id]}
          [] n.kind = "Local" -> seqHoles(n.Binds, bindBody) \cup Holes(n.Body)
          [] n.kind = "Object" -> seqHoles(n.Fields, fieldBody)
          [] n.kind = "Index" -> Holes(n.Target)
          [] OTHER -> {}

\* The column of the cursor at the end of the source of the request, and
\* the column at which its last local begins.
ParseEnd ==
    ColumnOf(SourceOf(probe.ids, probe.tail, probe.field, probe.spaced),
             Len(SourceOf(probe.ids, probe.tail, probe.field, probe.spaced)) + 1)

TailBegin == 1 + 12 * Len(probe.ids)

\* The missing expressions of the source of the request, as partial nodes
\* that begin where parsing could not proceed: at the end of the text, or
\* at the brace that closes the object for the value of a field.
PartialHoles ==
    CASE probe.tail = "keyword" ->
             {[kind |-> "Partial", col |-> ParseEnd, target |-> ""]}
      [] probe.tail = "noBody" ->
             {[kind |-> "Partial", col |-> ParseEnd, target |-> ""]}
      [] probe.tail = "bindIndex" ->
             {[kind |-> "PartialIndex", col |-> ParseEnd, target |-> "o"],
              [kind |-> "Partial", col |-> ParseEnd, target |-> ""]}
      [] probe.tail = "emptyField" ->
             {[kind |-> "Partial",
               col |-> TailBegin + 11 + (IF probe.spaced THEN 1 ELSE 0),
               target |-> ""]}
      [] probe.tail = "bodyIndex" ->
             {[kind |-> "PartialIndex", col |-> ParseEnd, target |-> "o"]}
      [] probe.tail = "complete" -> {}

\* C21 as stated: Parse returns a nil error and a tree in which each
\* missing expression is a partial node, or a partial-index node that keeps
\* the target, beginning where parsing could not proceed.
C21_EveryMissingExpressionIsPartial ==
    (probe.op = "Parse" /\ probe.pc = "replied") =>
        /\ probe.result.err = "nil"
        /\ Holes(probe.result.node) = PartialHoles

(***************************************************************************)
(* Termination of updateNodeCache.                                         *)
(***************************************************************************)
\* The j-th invocation is over: its rebuild goroutine has reported on one
\* channel and ended, and its select loop has returned; or it has returned
\* on the error of uri.ToPath, before it started anything.
Over(j) ==
    /\ jobs[j].rpc \in {"sentDone", "sentErr", "noPath"}
    /\ jobs[j].wdone

\* C26: every updateNodeCache invocation terminates with both its
\* goroutines ended: the rebuild goroutine reports on exactly one of done
\* and errCh, which is empty when it does so, and the loop returns when it
\* takes that report, having taken the timer at most once; an invocation
\* whose URI has no path has started no goroutine and no timer.
C26_InvocationTerminates ==
    /\ [](\A j \in JobIds :
            /\ jobs[j].rpc \in {"start", "read", "stored"} => jobs[j].out = "none"
            /\ jobs[j].wdone => jobs[j].rpc \in {"sentDone", "sentErr", "noPath"}
            /\ jobs[j].rpc = "noPath" =>
                   (jobs[j].out = "none" /\ jobs[j].timer = "none"
                    /\ jobs[j].running = 0)
            /\ jobs[j].running <= 1)
    /\ \A j \in 1..MaxLive : [](j \in JobIds => <>(j \in JobIds /\ Over(j)))

\* An invocation is over after its loop has taken the timer.
C26_Witness ==
    \E j \in JobIds : Over(j) /\ jobs[j].running = 1 /\ jobs[j].rpc = "sentDone"

(***************************************************************************)
(* Freshness of the published diagnostics.                                 *)
(***************************************************************************)
\* C27: the Process call for an older text never publishes after the call
\* for a newer text of the document has published, so that the last
\* publishDiagnostics notification is the one of the text stored last.
C27_OlderNeverPublishesAfterNewer ==
    [][\A p \in ProcIds :
          (/\ p \in DOMAIN procs'
           /\ procs[p].published = <<>>
           /\ procs'[p].published # <<>>) =>
              \A q \in ProcIds : q > p => procs[q].published = <<>>]_vars

(***************************************************************************)
(* The cache entry and the open/closed state of the document.              *)
(***************************************************************************)
\* Every request has been answered, every goroutine the requests started
\* has finished, every rebuild stored its tree and every closeFile called
\* Remove (the URI of the document has a path).
Quiet ==
    /\ Idle
    /\ closing = 0
    /\ badCloses = 0
    /\ \A j \in JobIds : jobs[j].rpc = "sentDone"

\* The last of the didOpen, didSave and didClose requests was a didClose.
LastWasClose ==
    /\ closes > 0
    /\ jobs # <<>> => jobs[Len(jobs)].closesSeen < closes

\* C28: once the goroutines of a sequence of didOpen, didSave and didClose
\* requests have all finished, the cache holds an entry for the path exactly
\* when the last of the requests was not a didClose.
C28_EntryFollowsOpenState ==
    (Quiet /\ (jobs # <<>> \/ closes > 0)) => ((cache # Absent) <=> ~LastWasClose)

(***************************************************************************)
(* The Dispatcher's watch/cancel protocol.                                 *)
(***************************************************************************)
\* The Dispatch calls that have returned.
Returned == {v \in 1..probe.ndisp : v # probe.cur}

\* Something is left to do: a Dispatch in its loop, or a goroutine that has
\* not finished.
DispatcherBusy ==
    \/ probe.cur # 0
    \/ \E g \in WatcherIds \X DispatchIds :
           probe.gor[g].pc \in {"spawned", "lockWatch", "lockCancel"}

\* C29: a Dispatch call starts one goroutine for each watcher registered
\* when it took the lock and for no other, in particular for none whose
\* cancel function had returned; a cancel removes its own watcher and only
\* that one, however often it is called; and neither Dispatch nor a watcher
\* that calls Watch or a cancel function ever waits for the other for good.
C29_WatchCancelProtocol ==
    probe.op = "dispatcher" =>
        /\ \A v \in DispatchIds, fn \in WatcherIds :
              /\ probe.gor[<<fn, v>>].n <= 1
              /\ probe.gor[<<fn, v>>].n = 1 => fn \in probe.at[v]
              /\ (v \in Returned /\ fn \in probe.at[v]) => probe.gor[<<fn, v>>].n = 1
              /\ fn \in probe.gone[v] => probe.gor[<<fn, v>>].n = 0
        /\ probe.keys \cap probe.cancelled = {}
        /\ probe.keys \cup probe.cancelled = 1..probe.next
        /\ DispatcherBusy => ENABLED DispatchSteps
        /\ \A g \in WatcherIds \X DispatchIds :
              probe.gor[g].pc = "spawned" =>
                  ENABLED watcherRun(g, "ok", 0)

\* Two Dispatch calls have returned: the first started the goroutines of two
\* watchers, one of which returned an error while the other called a cancel
\* function, and the second started none for the watcher cancelled by then.
C29_Witness ==
    /\ probe.op = "dispatcher"
    /\ probe.ndisp = 2
    /\ probe.cur = 0
    /\ Cardinality(probe.at[1]) = 2
    /\ probe.errors = 1
    /\ \E fn \in WatcherIds :
          /\ probe.gor[<<fn, 1>>].act = "cancel"
          /\ probe.gor[<<fn, 1>>].pc = "done"
          /\ probe.gor[<<fn, 1>>].target \in probe.gone[2]
    /\ \E fn \in probe.at[2] : probe.gor[<<fn, 2>>].pc = "done"

(***************************************************************************)
(* The responses of Handler.Handle.                                        *)
(***************************************************************************)
\* C30: Handle never sends more than one response to a request; when it has
\* returned it has sent one result if the method is in the table and the
\* operation returned no error, one internal-error response if it returned
\* an error, and nothing if the method is unknown or the operation panicked.
C30_AtMostOneResponse ==
    probe.op = "Handle" =>
        /\ Len(probe.sent) <= 1
        /\ probe.pc = "returned" =>
              probe.sent =
                  CASE probe.method \notin operations -> <<>>
                    [] probe.outcome = "response" ->
                           <<[kind |-> "result", code |-> "none"]>>
                    [] probe.outcome = "error" ->
                           <<[kind |-> "error", code |-> "CodeInternalError"]>>
                    [] OTHER -> <<>>

\* Handle has returned from a request whose operation returned an error.
C30_Witness ==
    /\ probe.op = "Handle"
    /\ probe.pc = "returned"
    /\ probe.method = "textDocument/hover"
    /\ probe.outcome = "error"
    /\ Len(probe.sent) = 1

====
